---- MODULE Spec2Model ----
(***************************************************************************)
(* Model of the ip_tracking application: the blocked-IP registry and its   *)
(* in-process snapshot (middleware.py), the manual block / unblock         *)
(* commands, the auto-block task, the anomaly-detection pass (tasks.py),   *)
(* the two-tier geolocation cache and the request pipeline                 *)
(* (middleware.py).                                                        *)
(*                                                                         *)
(* Time is in seconds.  An IP address is the sequence of the parts its     *)
(* text splits into at '.', so "203.0.113.9" is <<203, 0, 113, 9>>; a part *)
(* that is not a decimal number is TextPart.  A CharField value is a       *)
(* sequence of text pieces, so that concatenation is \o and the empty      *)
(* string is << >>.                                                        *)
(***************************************************************************)
EXTENDS Integers, Sequences, FiniteSets, TLC

VARIABLES
    now,                \* the clock: time.time() and timezone.now()
    blocks,             \* table BlockedIP: set of rows
    nextBlockId,        \* the table's auto-increment primary key
    last_change,        \* history: per IP, when its BlockedIP row was last written or deleted
    blocked_ips_cache,  \* middleware.blocked_ips_cache: << >> is None, <<S>> is the set S
    last_cache_update,  \* middleware.last_cache_update
    last_check,         \* the is_ip_blocked call made in the last step, if any: [ip, result]
    ops,                \* operator commands and auto_block_ip tasks in progress
    reqs,               \* requests in the middleware pipeline
    request_log,        \* table RequestLog: set of rows
    nextLogId,          \* RequestLog's auto-increment primary key
    suspicious,         \* table SuspiciousIP: set of rows
    nextSuspId,         \* SuspiciousIP's auto-increment primary key
    configs,            \* table AnomalyDetectionConfig: set of rows
    passes,             \* detect_anomalies runs in progress
    alerts,             \* the mails send_alert_email has sent, in order
    mem_cache,          \* django.core.cache (LocMemCache) of this process: set of entries
    geo_db,             \* table GeolocationCache: set of rows
    last_res,           \* the get_geolocation_data call made in the last step, if any
    prev_res            \* the call before it, when nothing happened in between

vars == <<now, blocks, nextBlockId, last_change, blocked_ips_cache,
          last_cache_update, last_check, ops, reqs, request_log, nextLogId,
          suspicious, nextSuspId, configs, passes, alerts, mem_cache, geo_db,
          last_res, prev_res>>

registryVars == <<blocks, nextBlockId, last_change>>
snapshotVars == <<blocked_ips_cache, last_cache_update>>
rulesVars    == <<suspicious, nextSuspId, configs, passes>>
geoStore     == <<mem_cache, geo_db>>

-----------------------------------------------------------------------------
(* Bounds of the model *)

MaxNow      == 120      \* the registry clock stops here
TickStep    == 30       \* seconds per clock step of the registry
MaxBlockId  == 3        \* BlockedIP rows ever inserted
MaxAlerts   == 2        \* alert mails the analysis passes may send
MaxLogId    == 2        \* RequestLog rows ever inserted through the pipeline
MaxGeoNow   == 144000   \* the clock of the geolocation cache stops here (40 h)
MaxCallsPerProcess == 1 \* get_geolocation_data calls of one process (private ranges)
MaxCachedIPs == 1       \* addresses with a cache entry at a time (private ranges)
SweepNow == 3456000     \* the time the sweeps start at: 40 days (sweep)
MaxSweepTicks == 1      \* seconds that pass while sweeps are run (sweep)
GeoTickStep == 28800    \* seconds per clock step of the geolocation cache (8 h)

(* Program constants *)

NULL           == -1      \* a null DateTimeField / None
cache_timeout  == 60      \* middleware.py:19
AutoBlockHours == 24      \* tasks.py:308
HourSeconds    == 3600
DaySeconds     == 86400

IPA   == <<203, 0, 113, 9>>
IPB   == <<198, 51, 100, 7>>
TextPart == -2            \* a part of an address text that is not a decimal number
BadIP == <<TextPart>>     \* "not-an-ip"
IPs   == {IPA, IPB}
MalformedIPs == {BadIP, <<1, 2>>, <<256, 0, 0, 1>>}   \* and "1.2", "256.0.0.1"
PrivateIP == <<10, 0, 0, 5>>

AllSlots == {1, 2}        \* commands / tasks that may run concurrently

Max(a, b) == IF a >= b THEN a ELSE b

-----------------------------------------------------------------------------
(* BlockedIP table (models.py) *)

BlockRow(id, ip, reason, created_at, expires_at) ==
    [id |-> id, ip |-> ip, reason |-> reason,
     created_at |-> created_at, expires_at |-> expires_at]

NoRow == BlockRow(0, << >>, << >>, NULL, NULL)

RowsOf(tbl, ip) == {r \in tbl : r.ip = ip}

\* BlockedIP.objects.filter(ip_address=ip).exists()
BlockExists(tbl, ip) == RowsOf(tbl, ip) # {}

\* BlockedIP.objects.get(ip_address=ip); NoRow stands for DoesNotExist
BlockGet(tbl, ip) ==
    IF BlockExists(tbl, ip) THEN CHOOSE r \in RowsOf(tbl, ip) : TRUE ELSE NoRow

UniqueViolationOff(tbl, ip) == FALSE

\* ip_address = GenericIPAddressField(unique=True): an INSERT of a second row
\* for the same address raises IntegrityError
UniqueViolation(tbl, ip) == \E r \in tbl : r.ip = ip

\* Q(expires_at__isnull=True) | Q(expires_at__gt=timezone.now())
IsActive(row, t) == row.expires_at = NULL \/ row.expires_at > t

ActiveBlocks(tbl, t) == {r.ip : r \in {q \in tbl : IsActive(q, t)}}

-----------------------------------------------------------------------------
(* The blocked-IP snapshot of the middleware (middleware.py) *)

NoneCache == << >>

CacheFreshLax(cache, updated, t) ==
    cache # NoneCache /\ t - updated <= cache_timeout

\* the test of get_blocked_ips: the snapshot is reused while it is younger
\* than cache_timeout
CacheFresh(cache, updated, t) ==
    cache # NoneCache /\ t - updated < cache_timeout

\* get_blocked_ips: the snapshot in force after the call and its time stamp
get_blocked_ips(cache, updated, tbl, t) ==
    IF CacheFresh(cache, updated, t)
    THEN [cache |-> cache, updated |-> updated]
    ELSE [cache |-> <<ActiveBlocks(tbl, t)>>, updated |-> t]

is_ip_blocked_negated(ip, snapshot) == ip \notin snapshot

\* is_ip_blocked: membership in the snapshot get_blocked_ips returned
is_ip_blocked(ip, snapshot) == ip \in snapshot

NoCheck == [ip |-> << >>, result |-> FALSE]

\* A step in which the middleware is not called
Quiet ==
    /\ last_check' = NoCheck
    /\ last_res' = << >>
    /\ prev_res' = << >>

\* One call of is_ip_blocked(ip) on the middleware instance.
IsIpBlocked(ip) ==
    LET g == get_blocked_ips(blocked_ips_cache, last_cache_update, blocks, now)
    IN /\ blocked_ips_cache' = g.cache
       /\ last_cache_update' = g.updated
       /\ last_check' = [ip |-> ip, result |-> is_ip_blocked(ip, g.cache[1])]
       /\ last_res' = << >>
       /\ prev_res' = << >>
       /\ UNCHANGED <<now, registryVars, ops, reqs, request_log, nextLogId,
                      rulesVars, alerts, geoStore>>

-----------------------------------------------------------------------------
(* Operator input (block_ip.py) *)

ValidIPLax(ip) == Len(ip) = 4 /\ \A i \in 1..4 : ip[i] >= 0

\* ipaddress.ip_address(text) accepts four decimal parts of 0..255 each
\* (the IPv6 texts of the model are not used by the commands)
ValidIP(ip) == Len(ip) = 4 /\ \A i \in 1..4 : ip[i] >= 0 /\ ip[i] <= 255

\* The --expires option.  kind "none": no option; "rel": the text "+<n><unit>",
\* n = TextPart when the middle is not a number; "abs": a text in one of the
\* two accepted date formats, naming the instant n; "bad": any other text.
Expires(kind, n, unit) == [kind |-> kind, n |-> n, unit |-> unit]
NoExpires == Expires("none", 0, "")

\* handle(), lines 62-87: [ok |-> FALSE] is CommandError
ParseExpires(e, t) ==
    CASE e.kind = "none" -> [ok |-> TRUE, at |-> NULL]
      [] e.kind = "rel"  ->
            IF e.n = TextPart THEN [ok |-> FALSE, at |-> NULL]
            ELSE IF e.unit = "d" THEN [ok |-> TRUE, at |-> t + e.n * DaySeconds]
            ELSE [ok |-> FALSE, at |-> NULL]
      [] e.kind = "abs"  -> [ok |-> TRUE, at |-> e.n]
      [] OTHER           -> [ok |-> FALSE, at |-> NULL]

ExpiresInputs ==
    {NoExpires, Expires("rel", 1, "d"), Expires("rel", 1, "h"),
     Expires("rel", TextPart, "d"), Expires("abs", 30, ""),
     Expires("bad", 0, "")}

ReasonInputs == {<< >>, <<"spam">>}

ReasonGiven(reason, old) == reason

\* reason or blocked_ip.reason
ReasonOr(reason, old) == IF reason # << >> THEN reason ELSE old

-----------------------------------------------------------------------------
(* Commands and tasks on the registry.  Each runs in its own process, so its *)
(* database statements interleave with those of the others.                  *)

Op(kind, pc, ip, row, sid, result) ==
    [kind |-> kind, pc |-> pc, ip |-> ip, row |-> row, sid |-> sid,
     result |-> result]

IdleOp == Op("idle", "idle", << >>, NoRow, 0, "none")

Free(o) == ops[o].pc \in {"idle", "done"}

Finished(kind, ip, result) == Op(kind, "done", ip, NoRow, 0, result)

Touch(ip) == IF ip \in DOMAIN last_change
             THEN [last_change EXCEPT ![ip] = now] ELSE last_change

opFrame == <<now, snapshotVars, reqs, request_log, nextLogId,
             configs, passes, geoStore>>

\* block_ip handle(), lines 50-98: validation, parsing and the lookup
BlockStart(o, ip, reason, expires, force) ==
    LET parse == ParseExpires(expires, now)
        found == BlockGet(blocks, ip)
    IN /\ Free(o)
       /\ ops' = [ops EXCEPT ![o] =
             IF ~ValidIP(ip) \/ ~parse.ok
             THEN Finished("block", ip, "CommandError")
             ELSE IF found # NoRow
             THEN IF ~force
                  THEN Finished("block", ip, "CommandError")
                  ELSE Op("block", "save", ip,
                          [found EXCEPT !.reason = ReasonOr(reason, found.reason),
                                        !.expires_at = parse.at],
                          0, "none")
             ELSE Op("block", "create", ip,
                     BlockRow(0, ip, reason, NULL, parse.at), 0, "none")]
       /\ UNCHANGED <<registryVars, suspicious, nextSuspId, alerts, opFrame>>
       /\ Quiet

\* blocked_ip.save(), line 103: UPDATE by primary key; when no row has that
\* key any more, Django inserts the object, created_at being set anew
BlockSave(o) ==
    LET obj == ops[o].row
        cur == {r \in blocks : r.id = obj.id}
    IN /\ ops[o].kind = "block" /\ ops[o].pc = "save"
       /\ IF cur # {}
          THEN /\ blocks' = (blocks \ cur) \cup {obj}
               /\ last_change' = Touch(obj.ip)
               /\ ops' = [ops EXCEPT ![o] = Finished("block", obj.ip, "updated")]
          ELSE IF UniqueViolation(blocks, obj.ip)
          THEN /\ UNCHANGED <<blocks, last_change>>
               /\ ops' = [ops EXCEPT ![o] = Finished("block", obj.ip, "IntegrityError")]
          ELSE /\ blocks' = blocks \cup {[obj EXCEPT !.created_at = now]}
               /\ last_change' = Touch(obj.ip)
               /\ ops' = [ops EXCEPT ![o] = Finished("block", obj.ip, "updated")]
       /\ UNCHANGED <<nextBlockId, suspicious, nextSuspId, alerts, opFrame>>
       /\ Quiet

\* BlockedIP.objects.create(...), lines 111-117
BlockCreate(o) ==
    LET obj == ops[o].row
    IN /\ ops[o].kind = "block" /\ ops[o].pc = "create"
       /\ nextBlockId <= MaxBlockId
       /\ IF UniqueViolation(blocks, obj.ip)
          THEN /\ UNCHANGED <<blocks, nextBlockId, last_change>>
               /\ ops' = [ops EXCEPT ![o] = Finished("block", obj.ip, "IntegrityError")]
          ELSE /\ blocks' = blocks \cup
                      {[obj EXCEPT !.id = nextBlockId, !.created_at = now]}
               /\ nextBlockId' = nextBlockId + 1
               /\ last_change' = Touch(obj.ip)
               /\ ops' = [ops EXCEPT ![o] = Finished("block", obj.ip, "created")]
       /\ UNCHANGED <<suspicious, nextSuspId, alerts, opFrame>>
       /\ Quiet

\* unblock_ip handle(), lines 24-28 and 37-38: the lookup
UnblockStart(o, ip) ==
    LET found == BlockGet(blocks, ip)
    IN /\ Free(o)
       /\ ops' = [ops EXCEPT ![o] =
             IF found = NoRow THEN Finished("unblock", ip, "CommandError")
             ELSE Op("unblock", "delete", ip, found, 0, "none")]
       /\ UNCHANGED <<registryVars, suspicious, nextSuspId, alerts, opFrame>>
       /\ Quiet

\* blocked_ip.delete(), line 29: DELETE by primary key
UnblockDelete(o) ==
    LET obj == ops[o].row
        cur == {r \in blocks : r.id = obj.id}
    IN /\ ops[o].kind = "unblock" /\ ops[o].pc = "delete"
       /\ blocks' = blocks \ cur
       /\ last_change' = IF cur # {} THEN Touch(obj.ip) ELSE last_change
       /\ ops' = [ops EXCEPT ![o] = Finished("unblock", obj.ip, "deleted")]
       /\ UNCHANGED <<nextBlockId, suspicious, nextSuspId, alerts, opFrame>>
       /\ Quiet

-----------------------------------------------------------------------------
(* SuspiciousIP table (models.py) and the alert mails (tasks.py) *)

SuspRow(id, ip, reason, severity, request_count, first, last, active, auto) ==
    [id |-> id, ip |-> ip, reason |-> reason, severity |-> severity,
     request_count |-> request_count, first_detected |-> first,
     last_detected |-> last, is_active |-> active, auto_blocked |-> auto]

\* suspicious_ip.auto_blocked = True; suspicious_ip.save(): last_detected is
\* auto_now, so every save sets it to the current time
MarkAutoBlocked(tbl, id, t) ==
    {IF r.id = id THEN [r EXCEPT !.auto_blocked = TRUE, !.last_detected = t]
     ELSE r : r \in tbl}

Alert(kind, ip) == [kind |-> kind, ip |-> ip]

\* send_alert_email: settings.ADMIN_EMAILS is set, the mail is sent with
\* fail_silently, and nothing is raised
send_alert_email(sent, kind, ip) == Append(sent, Alert(kind, ip))

\* f"Auto-blocked: {reason}"
AutoReason(reason) == <<"Auto-blocked: ">> \o <<reason>>

\* timezone.now() + timedelta(hours=24)
AutoExpiry(t) == t + AutoBlockHours * HourSeconds

RuleReasons == {"high_frequency", "sensitive_paths"}

-----------------------------------------------------------------------------
(* Module ip_tracking.tasks.  Lines 160-163 and 205-209 of tasks.py write a  *)
(* positional argument after a keyword argument,                             *)
(*     RequestLog.objects.filter(timestamp__gte=time_threshold,              *)
(*                               sensitive_path_q)                           *)
(* which the compiler rejects: importing the module raises SyntaxError and   *)
(* none of its functions is ever entered.                                    *)

\* the modules whose source does not compile
SyntaxErrors == {"ip_tracking.tasks"}

Importable(module) == module \notin SyntaxErrors

\* A call of a function of tasks.py, by a Celery worker or by a command such
\* as detect_anomalies_now or analyze_ip (line 2 of each): the import raises
ImportFails(o, kind, ip) ==
    /\ Free(o)
    /\ ops' = [ops EXCEPT ![o] = Finished(kind, ip, "SyntaxError")]
    /\ UNCHANGED <<registryVars, suspicious, nextSuspId, alerts, opFrame>>
    /\ Quiet

-----------------------------------------------------------------------------
(* auto_block_ip (tasks.py): the body of the function *)

\* lines 302-305: the existence test
EscalateStart(o, ip, reason, sid) ==
    /\ Free(o)
    /\ ops' = [ops EXCEPT ![o] =
          IF BlockExists(blocks, ip) THEN Finished("escalate", ip, "False")
          ELSE Op("escalate", "create", ip,
                  BlockRow(0, ip, AutoReason(reason), NULL, NULL), sid, "none")]
    /\ UNCHANGED <<registryVars, suspicious, nextSuspId, alerts, opFrame>>
       /\ Quiet

\* lines 307-339: the insert (IntegrityError is caught by the task's except
\* clause), the update of the suspicious record when its id was given, and
\* the alert
EscalateCreate(o) ==
    LET obj == ops[o].row
        sid == ops[o].sid
    IN /\ ops[o].kind = "escalate" /\ ops[o].pc = "create"
       /\ nextBlockId <= MaxBlockId
       /\ IF UniqueViolation(blocks, obj.ip)
          THEN /\ UNCHANGED <<blocks, nextBlockId, last_change, suspicious, alerts>>
               /\ ops' = [ops EXCEPT ![o] = Finished("escalate", obj.ip, "False")]
          ELSE /\ blocks' = blocks \cup
                      {[obj EXCEPT !.id = nextBlockId, !.created_at = now,
                                   !.expires_at = AutoExpiry(now)]}
               /\ nextBlockId' = nextBlockId + 1
               /\ last_change' = Touch(obj.ip)
               /\ suspicious' = IF sid # 0 THEN MarkAutoBlocked(suspicious, sid, now)
                                ELSE suspicious
               /\ alerts' = send_alert_email(alerts, "auto_blocked", obj.ip)
               /\ ops' = [ops EXCEPT ![o] = Finished("escalate", obj.ip, "True")]
       /\ UNCHANGED <<nextSuspId, opFrame>>
       /\ Quiet

-----------------------------------------------------------------------------
(* Geolocation (middleware.py).  Location data is [country, lat, source];   *)
(* country stands for the textual fields (country, city, region), lat for   *)
(* the two coordinates, NULL being None.                                     *)

GeoData(country, lat, source) == [country |-> country, lat |-> lat, source |-> source]

PrivateData == GeoData("Local", NULL, "private_ip")
FailedData  == GeoData("Unknown", NULL, "failed")

Fields(d) == <<d.country, d.lat>>

\* The integers _ip_to_int computes exceed the 32 bits of the checker's
\* arithmetic, so an integer v is kept as its two base-65536 digits,
\* v = hi * 65536 + lo with 0 <= lo < 65536.
Wide(hi, lo) == [hi |-> hi + lo \div 65536, lo |-> lo % 65536]

WideLess(a, b) == a.hi < b.hi \/ (a.hi = b.hi /\ a.lo < b.lo)

WideLeq(a, b) == a.hi < b.hi \/ (a.hi = b.hi /\ a.lo <= b.lo)

\* the first part, left to right, whose conversion raises, and what it raises
RECURSIVE PartError(_, _)
PartError(ip, i) ==
    IF i > 4 THEN "none"
    ELSE IF i > Len(ip) THEN "IndexError"
    ELSE IF ip[i] = TextPart THEN "ValueError"
    ELSE PartError(ip, i + 1)

\* _ip_to_int, lines 216-222:
\* (o[0] << 24) + (o[1] << 16) + (o[2] << 8) + o[3]
_ip_to_int(ip) ==
    LET err == PartError(ip, 1)
    IN [err |-> err,
        val |-> IF err = "none"
                THEN Wide(ip[1] * 256 + ip[2], ip[3] * 256 + ip[4])
                ELSE Wide(0, 0)]

private_ranges ==
    << <<(<<10, 0, 0, 0>>), (<<10, 255, 255, 255>>)>>,
       <<(<<172, 16, 0, 0>>), (<<172, 31, 255, 255>>)>>,
       <<(<<192, 168, 0, 0>>), (<<192, 168, 255, 255>>)>>,
       <<(<<127, 0, 0, 0>>), (<<127, 255, 255, 255>>)>>,
       <<(<<169, 254, 0, 0>>), (<<169, 254, 255, 255>>)>> >>

\* _is_private_ip, lines 187-214: "True", "False", or "IndexError" when the
\* conversion raises what the except clause does not catch
_is_private_ip(ip) ==
    LET r == _ip_to_int(ip)
    IN IF r.err = "ValueError" THEN "False"
       ELSE IF r.err = "IndexError" THEN "IndexError"
       ELSE IF \E k \in DOMAIN private_ranges :
                  /\ WideLeq(_ip_to_int(private_ranges[k][1]).val, r.val)
                  /\ WideLeq(r.val, _ip_to_int(private_ranges[k][2]).val)
            THEN "True" ELSE "False"

geolocation_cache_ttl == 86400     \* middleware.py:24, 24 * 60 * 60

\* An entry of the in-process cache.  origin is history: the expires_at of
\* the GeolocationCache row the data was copied from, NULL when the data came
\* from a provider.
MemEntry(ip, data, expires, origin) ==
    [key |-> ip, data |-> data, expires |-> expires, origin |-> origin]

\* cache.get(key): LocMemCache treats an entry as gone once its time is reached
MemGet(mem, ip, t) == {e \in mem : e.key = ip /\ e.expires > t}

\* cache.set(key, data, ttl)
MemSet(mem, ip, data, t, ttl, origin) ==
    {e \in mem : e.key # ip} \cup {MemEntry(ip, data, t + ttl, origin)}

GeoRow(ip, country, lat, expires_at) ==
    [ip |-> ip, country |-> country, lat |-> lat, expires_at |-> expires_at]

\* GeolocationCache.is_expired, models.py lines 137-140
GeoExpired(row, t) == t > row.expires_at

\* float(x) if x else None: zero is falsy
FloatOrNone(x) == IF x = NULL \/ x = 0 THEN NULL ELSE x

\* _get_db_cached_location, lines 140-164: the data returned (<< >> is None)
\* and the table afterwards (an expired row is deleted)
_get_db_cached_location(db, ip, t) ==
    LET rows == {r \in db : r.ip = ip}
    IN IF rows = {} THEN [data |-> << >>, db |-> db, origin |-> NULL]
       ELSE LET row == CHOOSE r \in rows : TRUE
            IN IF ~GeoExpired(row, t)
               THEN [data |-> <<GeoData(row.country, FloatOrNone(row.lat), "cache")>>,
                     db |-> db, origin |-> row.expires_at]
               ELSE [data |-> << >>, db |-> db \ {row}, origin |-> NULL]

\* _set_db_cached_location, lines 166-185: update_or_create keyed by ip_address
_set_db_cached_location(db, ip, data, t) ==
    {r \in db : r.ip # ip} \cup
        {GeoRow(ip, data.country, data.lat, t + 24 * HourSeconds)}

\* What a provider answers: [ok |-> FALSE] is an exception, a status other
\* than 200 or a body that is not JSON
Answer(ok, country, lat) == [ok |-> ok, country |-> country, lat |-> lat]
NoAnswer == Answer(FALSE, "", NULL)
Answers == {NoAnswer, Answer(TRUE, "Kenya", 5), Answer(TRUE, "Kenya", 0),
            Answer(TRUE, "Ghana", NULL)}

\* the addresses some cache tier holds an entry for
CachedIPs(mem, db) == {e.key : e \in mem} \cup {r.ip : r \in db}

\* _get_ipapi_location, lines 224-250
_get_ipapi_location(a) ==
    IF a.ok THEN <<GeoData(a.country, FloatOrNone(a.lat), "")>> ELSE << >>

\* _get_ipinfo_location, lines 252-289: the coordinates are parsed from "loc"
_get_ipinfo_location(a) ==
    IF a.ok THEN <<GeoData(a.country, a.lat, "")>> ELSE << >>

\* the loop with geolocation_services in the other order
CallProvidersSwapped(a1, a2) ==
    LET d1 == _get_ipapi_location(a1)
        d2 == _get_ipinfo_location(a2)
    IN IF d2 # << >>
       THEN [data |-> [d2[1] EXCEPT !.source = "_get_ipinfo_location"], calls |-> 1]
       ELSE IF d1 # << >>
       THEN [data |-> [d1[1] EXCEPT !.source = "_get_ipapi_location"], calls |-> 2]
       ELSE [data |-> FailedData, calls |-> 2]

\* lines 106-124: the providers in order, the first success wins
CallProviders(a1, a2) ==
    LET d1 == _get_ipapi_location(a1)
        d2 == _get_ipinfo_location(a2)
    IN IF d1 # << >>
       THEN [data |-> [d1[1] EXCEPT !.source = "_get_ipapi_location"], calls |-> 1]
       ELSE IF d2 # << >>
       THEN [data |-> [d2[1] EXCEPT !.source = "_get_ipinfo_location"], calls |-> 2]
       ELSE [data |-> FailedData, calls |-> 2]

ProviderNames == {"_get_ipapi_location", "_get_ipinfo_location"}

ShouldCacheNever(source) == FALSE

ShouldCacheAlways(source) == TRUE

\* line 127: geolocation_data.get('source') not in ['private_ip', 'failed']
ShouldCache(source) == source \notin {"private_ip", "failed"}

Res(raised, data, mem, db, calls, mreads, mwrites, reads, writes, origin) ==
    [raised |-> raised, data |-> data, mem |-> mem, db |-> db, calls |-> calls,
     mem_reads |-> mreads, mem_writes |-> mwrites,
     db_reads |-> reads, db_writes |-> writes, origin |-> origin]

\* get_geolocation_data, lines 70-138.  a1, a2: the providers' answers if they
\* are called; dbw: whether the database write succeeds.  The result carries
\* the data returned, both cache tiers afterwards, the number of provider
\* calls, of cache.get and cache.set calls and of database reads and writes,
\* and (history) the expires_at of
\* the GeolocationCache row the returned data was taken from.
get_geolocation_data(ip, mem, db, t, a1, a2, dbw) ==
    LET priv == _is_private_ip(ip)
        hit  == MemGet(mem, ip, t)
        dbc  == _get_db_cached_location(db, ip, t)
        ext  == CallProviders(a1, a2)
    IN IF priv = "IndexError"
       THEN Res(TRUE, FailedData, mem, db, 0, 0, 0, 0, 0, NULL)
       ELSE IF priv = "True"
       THEN Res(FALSE, PrivateData, mem, db, 0, 0, 0, 0, 0, NULL)
       ELSE IF hit # {}
       THEN LET e == CHOOSE x \in hit : TRUE
            IN Res(FALSE, [e.data EXCEPT !.source = "memory_cache"], mem, db,
                   0, 1, 0, 0, 0, e.origin)
       ELSE IF dbc.data # << >>
       THEN Res(FALSE, dbc.data[1],
                MemSet(mem, ip, dbc.data[1], t, geolocation_cache_ttl, dbc.origin),
                dbc.db, 0, 1, 1, 1, 0, dbc.origin)
       ELSE IF ShouldCache(ext.data.source)
       THEN Res(FALSE, ext.data,
                MemSet(mem, ip, ext.data, t, geolocation_cache_ttl, NULL),
                IF dbw THEN _set_db_cached_location(dbc.db, ip, ext.data, t)
                ELSE dbc.db,
                ext.calls, 1, 1, 1, 1, NULL)
       ELSE Res(FALSE, ext.data, mem, dbc.db, ext.calls, 1, 0, 1, 0, NULL)

-----------------------------------------------------------------------------
(* Requests in the middleware pipeline *)

\* writes is history: the RequestLog inserts the two hooks attempted for the
\* request, in order, each with its outcome
Req(pc, xff, remote, path, response, returned, writes) ==
    [pc |-> pc, xff |-> xff, remote |-> remote, path |-> path,
     response |-> response, returned |-> returned, writes |-> writes]

IdleReq == Req("idle", << >>, << >>, << >>, "none", "none", << >>)

\* one attempted insert: which create call it was, and the id of the row it
\* inserted, NULL when it raised
Write(kind, id) == [kind |-> kind, id |-> id]

ReqSlots == {1}           \* requests in the pipeline at a time

-----------------------------------------------------------------------------
(* Paths.  A path is a sequence of text pieces; the pieces used here share   *)
(* no characters across their borders, so one text starts with, or holds,   *)
(* another exactly when its sequence of pieces does.                         *)

\* str.startswith, and the SQL the lookup path__startswith makes
IsPrefix(e, t) == Len(e) <= Len(t) /\ SubSeq(t, 1, Len(e)) = e

\* the SQL the lookup path__contains makes
IsInfix(e, t) ==
    \E k \in 0..(Len(t) - Len(e)) : SubSeq(t, k + 1, k + Len(e)) = e

Blank == " "

\* str.strip()
RECURSIVE LStrip(_)
LStrip(t) == IF t # << >> /\ Head(t) = Blank THEN LStrip(Tail(t)) ELSE t

RECURSIVE RStrip(_)
RStrip(t) ==
    IF t # << >> /\ t[Len(t)] = Blank THEN RStrip(SubSeq(t, 1, Len(t) - 1)) ELSE t

Strip(t) == RStrip(LStrip(t))

NonEmpty(t) == t # << >>

-----------------------------------------------------------------------------
(* RequestLog and AnomalyDetectionConfig rows (models.py), analysis passes *)

\* A RequestLog row; "" is a null CharField
LogRow(id, ip, timestamp, path, country, lat, source, updated) ==
    [id |-> id, ip |-> ip, timestamp |-> timestamp, path |-> path,
     country |-> country, lat |-> lat, geolocation_source |-> source,
     geolocation_updated |-> updated, is_suspicious |-> FALSE,
     anomaly_reason |-> ""]

Config(id, name, enabled, threshold, hours, paths, cf, cs, ce, auto, severity) ==
    [id |-> id, name |-> name, enabled |-> enabled, threshold |-> threshold,
     time_window_hours |-> hours, sensitive_paths |-> paths,
     check_frequency |-> cf, check_sensitive_paths |-> cs,
     check_error_rate |-> ce, auto_block |-> auto, severity_level |-> severity]

NoConfig == Config(0, "", FALSE, 0, 0, << >>, FALSE, FALSE, FALSE, FALSE, "")

\* A detect_anomalies run.  ran_at is history: when the run was called (the
\* import failing) or called the frequency rule, NULL if it has not.
Pass(pc, config, time_threshold, ran_at, result) ==
    [pc |-> pc, config |-> config, time_threshold |-> time_threshold,
     ran_at |-> ran_at, result |-> result]

IdlePass == Pass("idle", NoConfig, 0, NULL, "none")

PassSlots == {1, 2}       \* detect_anomalies runs that may be in progress at a time

-----------------------------------------------------------------------------
(* The clock, and the start of a server process *)

Tick ==
    /\ now + TickStep <= MaxNow
    /\ now' = now + TickStep
    /\ Quiet
    /\ UNCHANGED <<registryVars, snapshotVars, ops, reqs, request_log,
                   nextLogId, rulesVars, alerts, geoStore>>

-----------------------------------------------------------------------------
(* The registry: commands, tasks and is_ip_blocked calls over time *)

InitCommon ==
    /\ now = 0
    /\ blocks = {}
    /\ nextBlockId = 1
    /\ last_change = [ip \in IPs |-> 0]
    /\ blocked_ips_cache = NoneCache
    /\ last_cache_update = 0
    /\ last_check = NoCheck
    /\ ops = [o \in AllSlots |-> IdleOp]
    /\ request_log = {}
    /\ nextLogId = 1
    /\ alerts = << >>

Init ==
    /\ InitCommon
    /\ reqs = [s \in ReqSlots |-> IdleReq]
    /\ suspicious = {}
    /\ nextSuspId = 1
    /\ configs = {}
    /\ passes = [p \in PassSlots |-> IdlePass]
    /\ mem_cache = {}
    /\ geo_db = {}
    /\ last_res = << >>
    /\ prev_res = << >>

\* block_ip commands with the given arguments
BlockWith(slots, ips, reasons, expiries) ==
    \E o \in slots :
        \/ \E ip \in ips, reason \in reasons, expires \in expiries,
              force \in BOOLEAN :
                BlockStart(o, ip, reason, expires, force)
        \/ BlockSave(o)
        \/ BlockCreate(o)

Block(slots, ips) == BlockWith(slots, ips \cup {BadIP}, ReasonInputs, ExpiresInputs)

Unblock(slots, ips) ==
    \E o \in slots :
        \/ \E ip \in ips : UnblockStart(o, ip)
        \/ UnblockDelete(o)

\* A call of auto_block_ip: the module is imported, then the body runs
Escalate(slots, ips) ==
    IF Importable("ip_tracking.tasks")
    THEN \E o \in slots :
            \/ \E ip \in ips, reason \in {"high_frequency"}, sid \in {0, 1} :
                    EscalateStart(o, ip, reason, sid)
            \/ EscalateCreate(o)
    ELSE \E o \in slots, ip \in ips : ImportFails(o, "escalate", ip)

\* Commands and tasks racing on the registry
Next ==
    \/ Block(AllSlots, {IPA})
    \/ Unblock(AllSlots, {IPA})
    \/ Escalate(AllSlots, {IPA})

Spec == Init /\ [][Next]_vars

CheckBlocked == \E ip \in {IPA} : IsIpBlocked(ip)

\* The snapshot over time: one command at a time, is_ip_blocked calls, the clock
NextSnapshot ==
    \/ Block({1}, {IPA})
    \/ Unblock({1}, {IPA})
    \/ Escalate({1}, {IPA})
    \/ CheckBlocked
    \/ Tick

SpecSnapshot == Init /\ [][NextSnapshot]_vars

-----------------------------------------------------------------------------
(* Properties of the registry *)

\* The row of ip has not been written for a refresh interval and is active now,
\* so it was active during the whole interval.
StablyActive(ip) ==
    \E r \in RowsOf(blocks, ip) :
        IsActive(r, now) /\ last_change[ip] + cache_timeout <= now

\* For a whole refresh interval ip has had no row, or an expired row.
StablyInactive(ip) ==
    \/ RowsOf(blocks, ip) = {} /\ last_change[ip] + cache_timeout <= now
    \/ \E r \in RowsOf(blocks, ip) :
          /\ r.expires_at # NULL
          /\ Max(r.expires_at, last_change[ip]) + cache_timeout <= now

\* C1, as amended: an is_ip_blocked call returns true when the IP's entry is
\* active and a refresh interval has passed since the entry was created or
\* last updated, and false when a refresh interval has passed since the entry
\* expired, was deleted or was last updated to an expired state.
C1_SnapshotFollowsRegistry ==
    [][\A ip \in IPs :
          IsIpBlocked(ip) =>
             /\ StablyActive(ip) => last_check'.result
             /\ StablyInactive(ip) => ~last_check'.result]_vars

\* C1 as stated: the interval is counted from the entry's creation, and from
\* its expiry or deletion.
C1_AsStated ==
    [][\A ip \in IPs :
          IsIpBlocked(ip) =>
             /\ (\E r \in RowsOf(blocks, ip) :
                    IsActive(r, now) /\ r.created_at + cache_timeout <= now)
                => last_check'.result
             /\ (\/ RowsOf(blocks, ip) = {} /\ last_change[ip] + cache_timeout <= now
                 \/ \E r \in RowsOf(blocks, ip) :
                       r.expires_at # NULL /\ r.expires_at + cache_timeout <= now)
                => ~last_check'.result]_vars

\* An is_ip_blocked call that refreshed the snapshot answered true for an
\* entry that had been active for a refresh interval.
C1_Witness ==
    /\ last_check = [ip |-> IPA, result |-> TRUE]
    /\ StablyActive(IPA)
    /\ last_cache_update = now
    /\ now >= 2 * cache_timeout

\* C3: the store holds at most one BlockedIP row per IP, whatever the
\* interleaving of block, unblock and auto-block steps.
C3_OneEntryPerIP ==
    \A ip \in IPs : Cardinality(RowsOf(blocks, ip)) <= 1

\* Two block commands raced to insert a row for the same IP; one was refused.
C3_Witness ==
    /\ \E o \in AllSlots : ops[o].kind = "block" /\ ops[o].result = "IntegrityError"
    /\ \E o \in AllSlots : ops[o].kind = "block" /\ ops[o].result = "created"
    /\ Cardinality(RowsOf(blocks, IPA)) = 1

\* Operator commands alone, with malformed addresses among their arguments:
\* one block_ip at a time, racing with unblock_ip commands
NextCommands ==
    \/ BlockWith({1}, {IPA} \cup MalformedIPs, ReasonInputs, ExpiresInputs)
    \/ Unblock(AllSlots, {IPA})

SpecCommands == Init /\ [][NextCommands]_vars

\* the --expires texts that name no instant
UnparseableExpires ==
    {e \in ExpiresInputs :
        \/ e.kind = "bad"
        \/ e.kind = "rel" /\ (e.n = TextPart \/ e.unit # "d")}

\* C18: an unblock_ip of an IP without a row, and a block_ip with a malformed
\* IP, with an unparseable --expires, or without --force for an IP that has a
\* row, each end with CommandError and leave the BlockedIP table as it was.
C18_InvalidInputRejected ==
    [][\A o \in AllSlots :
          (Free(o) /\ ops'[o] # ops[o]) =>
             LET ip == ops'[o].ip
             IN /\ (ops'[o].kind = "unblock" /\ RowsOf(blocks, ip) = {})
                    => /\ ops'[o] = Finished("unblock", ip, "CommandError")
                       /\ blocks' = blocks
                /\ ops'[o].kind = "block"
                    => \A reason \in ReasonInputs, expires \in ExpiresInputs,
                          force \in BOOLEAN :
                          (/\ \/ ip \in MalformedIPs
                              \/ expires \in UnparseableExpires
                              \/ RowsOf(blocks, ip) # {} /\ ~force
                           /\ BlockStart(o, ip, reason, expires, force))
                             => /\ ops'[o] = Finished("block", ip, "CommandError")
                                /\ blocks' = blocks]_vars

\* An unblock_ip was refused for want of a row, a block_ip then created the
\* row, and a second block_ip without --force was refused.
C18_Witness ==
    /\ ops[1] = Finished("block", IPA, "CommandError")
    /\ ops[2] = Finished("unblock", IPA, "CommandError")
    /\ \E r \in blocks : r.ip = IPA /\ r.reason = <<"spam">> /\ r.expires_at = 30

\* the instant an --expires option that parses names at time t, NULL
\* (permanent) without the option
GivenExpiry(e, t) ==
    IF e.kind = "abs" THEN e.n
    ELSE IF e.kind = "rel" THEN t + e.n * DaySeconds ELSE NULL

\* C35: a block_ip with --force for an address that has a row goes on to save
\* that row with the expiry given (none when the option is absent) and with
\* the reason given when it is not empty, the old reason otherwise, its id
\* and created_at untouched; given once more on the row it has left, with an
\* absolute expiry, it saves the row as it is; and its save, the row still
\* being there, replaces the row by the saved one, so the address keeps one
\* row.
C35_ForcedBlock ==
    [][\A o \in AllSlots :
          /\ (Free(o) /\ ops'[o] # ops[o] /\ ops'[o].kind = "block")
             => \A reason \in ReasonInputs, expires \in ExpiresInputs :
                   LET ip    == ops'[o].ip
                       found == BlockGet(blocks, ip)
                   IN (/\ found # NoRow
                       /\ expires \notin UnparseableExpires
                       /\ BlockStart(o, ip, reason, expires, TRUE))
                      => /\ ops'[o].pc = "save"
                         /\ ops'[o].row =
                              [found EXCEPT
                                 !.reason = IF reason # << >> THEN reason
                                            ELSE found.reason,
                                 !.expires_at = GivenExpiry(expires, now)]
                         /\ (/\ expires.kind = "abs"
                             /\ found.expires_at = GivenExpiry(expires, now)
                             /\ reason \in {<< >>, found.reason})
                            => ops'[o].row = found
          /\ (/\ ops[o].kind = "block" /\ ops[o].pc = "save" /\ ops'[o].pc = "done"
              /\ \E r \in blocks : r.id = ops[o].row.id)
             => /\ blocks' = {r \in blocks : r.id # ops[o].row.id} \cup {ops[o].row}
                /\ Cardinality(RowsOf(blocks', ops[o].ip)) = 1
                /\ \A r \in RowsOf(blocks', ops[o].ip), q \in RowsOf(blocks, ops[o].ip) :
                      r.created_at = q.created_at]_vars

\* A forced block_ip has updated a row created earlier: the row has the
\* absolute expiry and the reason given, and its created_at is in the past.
C35_Witness ==
    /\ ops[1] = Finished("block", IPA, "updated")
    /\ \E r \in RowsOf(blocks, IPA) :
          /\ r.created_at < now
          /\ r.expires_at = 30
          /\ r.reason = <<"spam">>

\* C8: a call of auto_block_ip that ends on an IP without an entry has
\* inserted exactly one row, with expires_at 24 hours ahead and the reason
\* prefixed, and returns True; on an IP that has an entry it returns False and
\* leaves the table as it was.
C8_Escalate ==
    [][\A o \in AllSlots :
          (ops'[o] # ops[o] /\ ops'[o].kind = "escalate" /\ ops'[o].pc = "done")
          => IF BlockExists(blocks, ops'[o].ip)
             THEN ops'[o].result = "False" /\ blocks' = blocks
             ELSE /\ ops'[o].result = "True"
                  /\ \E r \in blocks' :
                        /\ r \notin blocks
                        /\ blocks' = blocks \cup {r}
                        /\ r.ip = ops'[o].ip
                        /\ r.created_at = now
                        /\ r.expires_at = now + 24 * 3600
                        /\ Len(r.reason) = 2
                        /\ r.reason[1] = "Auto-blocked: "
                        /\ r.reason[2] \in RuleReasons
                  /\ Cardinality(RowsOf(blocks', ops'[o].ip)) = 1]_vars

-----------------------------------------------------------------------------
(* Resolving addresses over time *)

Call(ip, r) ==
    [ip |-> ip, raised |-> r.raised, data |-> r.data, calls |-> r.calls,
     mem_reads |-> r.mem_reads, mem_writes |-> r.mem_writes,
     db_reads |-> r.db_reads, db_writes |-> r.db_writes, origin |-> r.origin]

\* One call of get_geolocation_data(ip), as update_geolocation makes it
Resolve(ip) ==
    \E a1 \in Answers, a2 \in Answers, dbw \in BOOLEAN :
        LET r == get_geolocation_data(ip, mem_cache, geo_db, now, a1, a2, dbw)
        IN /\ mem_cache' = r.mem
           /\ geo_db' = r.db
           /\ prev_res' = last_res
           /\ last_res' = <<Call(ip, r)>>
           /\ last_check' = NoCheck
           /\ UNCHANGED <<now, registryVars, snapshotVars, ops, reqs,
                          request_log, nextLogId, rulesVars, alerts>>

GeoTick ==
    /\ now + GeoTickStep <= MaxGeoNow
    /\ now' = now + GeoTickStep
    /\ Quiet
    /\ UNCHANGED <<registryVars, snapshotVars, ops, reqs, request_log,
                   nextLogId, rulesVars, alerts, geoStore>>

\* A server or command process starts: BasicIPLoggingMiddleware.__init__ and
\* an empty LocMemCache (the cache lives in the process's memory); the
\* requests the previous process was serving are gone
ProcessStart ==
    /\ blocked_ips_cache' = NoneCache
    /\ last_cache_update' = 0
    /\ mem_cache' = {}
    /\ reqs' = [s \in ReqSlots |-> IdleReq]
    /\ Quiet
    /\ UNCHANGED <<now, registryVars, ops, request_log, nextLogId,
                   rulesVars, alerts, geo_db>>

ResolveCall == \E ip \in {IPA, PrivateIP} : Resolve(ip)

NextGeo == ResolveCall \/ GeoTick \/ ProcessStart

SpecGeo == Init /\ [][NextGeo]_vars

\* One call of get_geolocation_data(ip); the answers the providers had for
\* it are kept beside the call (history)
ResolveAnswered(ip) ==
    \E a1 \in Answers, a2 \in Answers, dbw \in BOOLEAN :
        LET r == get_geolocation_data(ip, mem_cache, geo_db, now, a1, a2, dbw)
        IN /\ mem_cache' = r.mem
           /\ geo_db' = r.db
           /\ prev_res' = << >>
           /\ last_res' = <<Call(ip, r), a1, a2>>
           /\ last_check' = NoCheck
           /\ UNCHANGED <<now, registryVars, snapshotVars, ops, reqs,
                          request_log, nextLogId, rulesVars, alerts>>

ResolveAnsweredCall == \E ip \in {IPA} : ResolveAnswered(ip)

NextProviders == ResolveAnsweredCall \/ GeoTick \/ ProcessStart

SpecProviders == Init /\ [][NextProviders]_vars

\* neither cache tier has data to return for ip: no entry in the in-process
\* cache that is still valid, and no row that has not expired
MissesBothTiers(ip) ==
    /\ MemGet(mem_cache, ip, now) = {}
    /\ \A r \in geo_db : r.ip = ip => GeoExpired(r, now)

\* C33: a call for a public address that misses both cache tiers raises
\* nothing; it calls ipapi, and ipinfo exactly when ipapi failed; it returns
\* what ipapi returned if ipapi answered, else what ipinfo returned if that
\* answered, each under the provider's name, else the failure sentinel.
C33_ProviderOrder ==
    [][\A ip \in IPs :
          (/\ last_res' # << >> /\ last_res'[1].ip = ip
           /\ MissesBothTiers(ip))
          => LET c  == last_res'[1]
                 a1 == last_res'[2]
                 a2 == last_res'[3]
             IN /\ ~c.raised
                /\ c.calls = IF a1.ok THEN 1 ELSE 2
                /\ a1.ok => /\ c.data.source = "_get_ipapi_location"
                            /\ Fields(c.data) = Fields(_get_ipapi_location(a1)[1])
                /\ (~a1.ok /\ a2.ok)
                   => /\ c.data.source = "_get_ipinfo_location"
                      /\ Fields(c.data) = Fields(_get_ipinfo_location(a2)[1])
                /\ (~a1.ok /\ ~a2.ok) => c.data = FailedData]_vars

\* ipapi failed, ipinfo answered, and the call returned ipinfo's location
\* after two provider calls.
C33_Witness ==
    /\ Len(last_res) = 3
    /\ ~last_res[2].ok /\ last_res[3].ok
    /\ last_res[1].data.source = "_get_ipinfo_location"
    /\ last_res[1].calls = 2

\* C34: a call for an address that the in-process cache has no valid entry
\* of and the table has a row of: if the row has not expired, the call
\* returns the row's fields with source cache, leaves them in the in-process
\* cache and calls no provider; if it has expired, the call does not return
\* it, the row is gone from the table and the providers are called.
C34_PersistentTier ==
    [][\A ip \in IPs : \A r \in geo_db :
          (/\ last_res' # << >> /\ last_res'[1].ip = ip
           /\ r.ip = ip
           /\ MemGet(mem_cache, ip, now) = {})
          => LET c == last_res'[1]
             IN IF ~GeoExpired(r, now)
                THEN /\ c.data.source = "cache"
                     /\ Fields(c.data) = <<r.country, r.lat>>
                     /\ c.calls = 0
                     /\ \E e \in MemGet(mem_cache', ip, now) :
                           Fields(e.data) = <<r.country, r.lat>>
                ELSE /\ c.data.source # "cache"
                     /\ r \notin geo_db'
                     /\ c.calls >= 1]_vars

\* the parts of C34 that do not depend on the value of the coordinates
C34_ExceptCoordinates ==
    [][\A ip \in IPs : \A r \in geo_db :
          (/\ last_res' # << >> /\ last_res'[1].ip = ip
           /\ r.ip = ip
           /\ MemGet(mem_cache, ip, now) = {})
          => LET c == last_res'[1]
             IN IF ~GeoExpired(r, now)
                THEN /\ c.data.source = "cache"
                     /\ c.data.country = r.country
                     /\ r.lat # 0 => c.data.lat = r.lat
                     /\ c.calls = 0
                     /\ \E e \in MemGet(mem_cache', ip, now) : e.data = c.data
                ELSE /\ c.data.source # "cache"
                     /\ r \notin geo_db'
                     /\ c.calls >= 1]_vars

\* C9: no call returns data taken from a GeolocationCache row later than that
\* row's expires_at, be it read from the table or from the in-process copy
\* made from the row.
C9_NeverServedPastExpiry ==
    \A i \in DOMAIN last_res :
        last_res[i].origin # NULL => now <= last_res[i].origin

\* C10: a call that follows at once a call answered by a provider for the same
\* IP returns the same location from the in-process cache, without calling a
\* provider and without touching the GeolocationCache table.
C10_RoundTrip ==
    (/\ prev_res # << >> /\ last_res # << >>
     /\ prev_res[1].ip = last_res[1].ip
     /\ prev_res[1].data.source \in ProviderNames)
    => /\ last_res[1].data.source = "memory_cache"
       /\ Fields(last_res[1].data) = Fields(prev_res[1].data)
       /\ last_res[1].calls = 0
       /\ last_res[1].db_reads = 0
       /\ last_res[1].db_writes = 0

\* A provider answered with a zero coordinate after the first provider had
\* failed, the database write failed, and the next call was served from memory.
C10_Witness ==
    /\ prev_res # << >> /\ last_res # << >>
    /\ prev_res[1].data.source = "_get_ipinfo_location"
    /\ prev_res[1].data.lat = 0
    /\ geo_db = {}
    /\ last_res[1].data.source = "memory_cache"

\* C12: when get_geolocation_data is called for a public IP that has no entry
\* in either cache tier and every provider fails, it returns the sentinel
\* (source = failed, the textual fields 'Unknown') and writes neither the
\* in-process cache nor the GeolocationCache table; and the call that follows
\* a failed one for the same IP calls the providers again.
C12_FailureNotCached ==
    [][\A ip \in IPs :
         /\ (/\ ip \notin CachedIPs(mem_cache, geo_db)
             /\ last_res' # << >> /\ last_res'[1].ip = ip
             /\ last_res'[1].calls = Cardinality(ProviderNames)
             /\ last_res'[1].data.source \notin ProviderNames)
            => /\ last_res'[1].data = FailedData
               /\ last_res'[1].mem_writes = 0 /\ last_res'[1].db_writes = 0
               /\ mem_cache' = mem_cache /\ geo_db' = geo_db
         /\ (/\ last_res # << >> /\ last_res[1].ip = ip
             /\ last_res[1].data.source = "failed"
             /\ last_res' # << >> /\ last_res'[1].ip = ip)
            => last_res'[1].calls > 0]_vars

\* Both providers failed twice in a row for the same address, and no cache
\* tier holds anything.
C12_Witness ==
    /\ prev_res # << >> /\ last_res # << >>
    /\ prev_res[1].ip = IPA /\ last_res[1].ip = IPA
    /\ prev_res[1].data.source = "failed" /\ prev_res[1].calls = 2
    /\ last_res[1].data.source = "failed" /\ last_res[1].calls = 2
    /\ mem_cache = {} /\ geo_db = {}

-----------------------------------------------------------------------------
(* Private addresses: get_geolocation_data on the edges of the five ranges  *)

\* dotted quads a.b.c.d: the first and the last address of each range, the
\* address before and the address after it, and addresses that hold a
\* range's numbers in other positions
EdgeIPs ==
    { <<9, 255, 255, 255>>, <<10, 0, 0, 0>>, <<10, 255, 255, 255>>, <<11, 0, 0, 0>>,
      <<172, 15, 255, 255>>, <<172, 16, 0, 0>>, <<172, 31, 255, 255>>,
      <<172, 32, 0, 0>>,
      <<192, 167, 255, 255>>, <<192, 168, 0, 0>>, <<192, 168, 255, 255>>,
      <<192, 169, 0, 0>>,
      <<126, 255, 255, 255>>, <<127, 0, 0, 0>>, <<127, 255, 255, 255>>,
      <<128, 0, 0, 0>>,
      <<169, 253, 255, 255>>, <<169, 254, 0, 0>>, <<169, 254, 255, 255>>,
      <<169, 255, 0, 0>>,
      <<0, 0, 0, 0>>, <<255, 255, 255, 255>>, <<172, 20, 1, 1>>,
      <<168, 192, 0, 1>>, <<1, 10, 0, 0>>, <<254, 169, 0, 0>> }

\* A command process resolves an address; the bounds keep the caches to the
\* entries of one address at a time
ResolveEdge ==
    \E ip \in EdgeIPs :
        /\ Len(last_res) + Len(prev_res) < MaxCallsPerProcess
        /\ Resolve(ip)
        /\ Cardinality(CachedIPs(mem_cache', geo_db')) <= MaxCachedIPs

NextPrivate == ResolveEdge \/ ProcessStart

SpecPrivate == Init /\ [][NextPrivate]_vars

\* The 32-bit integer of a.b.c.d is a * 2^24 + low, low = b * 2^16 + c * 2^8 + d
\* below 2^24, so two addresses compare as the pairs <<a, low>> do.
Low24(ip) == ip[2] * 65536 + ip[3] * 256 + ip[4]

Between(ip, first, last) ==
    /\ first[1] < ip[1] \/ (first[1] = ip[1] /\ Low24(first) <= Low24(ip))
    /\ ip[1] < last[1] \/ (ip[1] = last[1] /\ Low24(ip) <= Low24(last))

InPrivateRange(ip) ==
    \/ Between(ip, <<10, 0, 0, 0>>, <<10, 255, 255, 255>>)
    \/ Between(ip, <<172, 16, 0, 0>>, <<172, 31, 255, 255>>)
    \/ Between(ip, <<192, 168, 0, 0>>, <<192, 168, 255, 255>>)
    \/ Between(ip, <<127, 0, 0, 0>>, <<127, 255, 255, 255>>)
    \/ Between(ip, <<169, 254, 0, 0>>, <<169, 254, 255, 255>>)

NoLookup(c) ==
    /\ c.calls = 0
    /\ c.mem_reads = 0 /\ c.mem_writes = 0
    /\ c.db_reads = 0 /\ c.db_writes = 0

\* C11: a call for an IPv4 address a.b.c.d returns the private result, having
\* called no provider and read or written neither cache tier, exactly when the
\* address as a 32-bit integer lies in one of 10.0.0.0-10.255.255.255,
\* 172.16.0.0-172.31.255.255, 192.168.0.0-192.168.255.255,
\* 127.0.0.0-127.255.255.255, 169.254.0.0-169.254.255.255, bounds included.
C11_PrivateIffInRange ==
    \A i \in DOMAIN last_res :
        LET c == last_res[i]
        IN (Len(c.ip) = 4 /\ \A k \in 1..4 : c.ip[k] \in 0..255)
           => /\ InPrivateRange(c.ip) => (c.data = PrivateData /\ NoLookup(c))
              /\ ~InPrivateRange(c.ip) => (c.data.source # "private_ip"
                                           /\ c.mem_reads = 1)

\* The last address of the 172.16/12 range was resolved as private while the
\* GeolocationCache table held what a provider had answered for the address
\* just beyond it.
C11_Witness ==
    /\ last_res # << >>
    /\ last_res[1].ip = <<172, 31, 255, 255>>
    /\ last_res[1].data.source = "private_ip"
    /\ \E r \in geo_db : r.ip = <<172, 32, 0, 0>>

-----------------------------------------------------------------------------
(* IPv6 addresses in get_geolocation_data.  _ip_to_int splits the text at   *)
(* '.': the texts '::1', 'fe80::1' and 'fc00::1' have no dot and are one    *)
(* part, which int() rejects                                               *)

PrivateV6 == <<TextPart>>     \* '::1', 'fe80::1', 'fc00::1' split at '.'

ResolveV6 == \E ip \in {PrivateV6, PrivateIP} : Resolve(ip)

NextV6 == ResolveV6 \/ GeoTick \/ ProcessStart

SpecV6 == Init /\ [][NextV6]_vars

\* C36: a call for the IPv6 loopback, a link-local or a unique-local address
\* returns the private result, as a call for an IPv4 private address does,
\* having called no provider and touched neither cache tier.
C36_PrivateV6 ==
    \A i \in DOMAIN last_res :
        last_res[i].ip \in {PrivateV6, PrivateIP}
        => (last_res[i].data = PrivateData /\ NoLookup(last_res[i]))

\* the IPv4 half of C36
C36_PrivateV4 ==
    \A i \in DOMAIN last_res :
        last_res[i].ip = PrivateIP
        => (last_res[i].data = PrivateData /\ NoLookup(last_res[i]))

-----------------------------------------------------------------------------
(* The request pipeline (middleware.py): process_request, the downstream     *)
(* view, process_response                                                    *)

ZeroIP == <<0, 0, 0, 0>>      \* '0.0.0.0'
ShortIP == <<1, 2>>           \* "1.2"

\* get_client_ip, lines 30-41.  xff is the X-Forwarded-For header split at ',',
\* << >> when the header is absent or empty; remote is REMOTE_ADDR, << >> when
\* it is absent.  An empty text is << >>.
get_client_ip(xff, remote) ==
    LET ip == IF xff # << >> THEN xff[1] ELSE remote
    IN IF ip # << >> THEN ip ELSE ZeroIP

\* lines 339-353: the row written for a request that is not blocked; data is
\* << >> when get_geolocation_data raised (geolocation_data = {})
GeoLogRow(id, ip, t, path, data) ==
    IF data = << >>
    THEN LogRow(id, ip, t, path, "", NULL, "", t)
    ELSE LogRow(id, ip, t, path, data[1].country, data[1].lat, data[1].source,
                IF ShouldCache(data[1].source) THEN t ELSE NULL)

FallbackRowStamped(id, ip, t, path) == LogRow(id, ip, t, path, "", NULL, "", t)

\* lines 357-361: the row of the fallback insert
FallbackRow(id, ip, t, path) == LogRow(id, ip, t, path, "", NULL, "", NULL)

\* lines 300-306: the row of a refused request
BlockedRow(id, ip, t, path) == LogRow(id, ip, t, path, "Blocked", NULL, "", NULL)

\* process_request, lines 291-317.  The insert may fail (logged is FALSE); the
\* request is refused all the same.
ProcessRequest(s, xff, remote, path) ==
    LET client_ip == get_client_ip(xff, remote)
        g == get_blocked_ips(blocked_ips_cache, last_cache_update, blocks, now)
        blocked == is_ip_blocked(client_ip, g.cache[1])
    IN /\ reqs[s].pc \in {"idle", "done"}
       /\ nextLogId <= MaxLogId
       /\ blocked_ips_cache' = g.cache
       /\ last_cache_update' = g.updated
       /\ last_check' = [ip |-> client_ip, result |-> blocked]
       /\ last_res' = << >>
       /\ prev_res' = << >>
       /\ IF blocked
          THEN \E logged \in BOOLEAN :
                    /\ IF logged
                       THEN /\ request_log' = request_log \cup
                                   {BlockedRow(nextLogId, client_ip, now, path)}
                            /\ nextLogId' = nextLogId + 1
                       ELSE UNCHANGED <<request_log, nextLogId>>
                    /\ reqs' = [reqs EXCEPT ![s] =
                                   Req("forbidden", xff, remote, path, "403",
                                       "none", <<Write("blocked",
                                               IF logged THEN nextLogId
                                               ELSE NULL)>>)]
          ELSE /\ UNCHANGED <<request_log, nextLogId>>
               /\ reqs' = [reqs EXCEPT ![s] =
                              Req("view", xff, remote, path, "none", "none",
                                  << >>)]
       /\ UNCHANGED <<now, registryVars, ops, rulesVars, alerts, geoStore>>

\* get_response: process_request returned None, the view answers
View(s, response) ==
    /\ reqs[s].pc = "view"
    /\ reqs' = [reqs EXCEPT ![s].pc = "respond", ![s].response = response]
    /\ Quiet
    /\ UNCHANGED <<now, registryVars, snapshotVars, ops, request_log, nextLogId,
                   rulesVars, alerts, geoStore>>

\* what the providers answer to the requests of the pipeline
PipelineAnswers == {NoAnswer, Answer(TRUE, "Kenya", 5)}

\* process_response, lines 319-366, called with the view's response or with
\* the 403 of process_request; answers is what the providers may answer
ProcessResponseWith(s, answers) ==
    LET r == reqs[s]
        client_ip == get_client_ip(r.xff, r.remote)
        g == get_blocked_ips(blocked_ips_cache, last_cache_update, blocks, now)
        blocked == is_ip_blocked(client_ip, g.cache[1])
    IN /\ r.pc \in {"forbidden", "respond"}
       /\ nextLogId <= MaxLogId
       /\ blocked_ips_cache' = g.cache
       /\ last_cache_update' = g.updated
       /\ last_check' = [ip |-> client_ip, result |-> blocked]
       /\ prev_res' = << >>
       /\ IF blocked
          THEN /\ last_res' = << >>
               /\ UNCHANGED <<request_log, nextLogId, geoStore>>
               /\ reqs' = [reqs EXCEPT ![s].pc = "done",
                                       ![s].returned = r.response]
          ELSE \E a1 \in answers, a2 \in answers, dbw \in BOOLEAN,
                  logged \in BOOLEAN, fallback \in BOOLEAN :
                 LET geo == get_geolocation_data(client_ip, mem_cache, geo_db,
                                                 now, a1, a2, dbw)
                     data == IF geo.raised THEN << >> ELSE <<geo.data>>
                 IN /\ mem_cache' = geo.mem
                    /\ geo_db' = geo.db
                    /\ last_res' = <<Call(client_ip, geo)>>
                    /\ IF logged
                       THEN /\ request_log' = request_log \cup
                                   {GeoLogRow(nextLogId, client_ip, now, r.path, data)}
                            /\ nextLogId' = nextLogId + 1
                       ELSE IF fallback
                       THEN /\ request_log' = request_log \cup
                                   {FallbackRow(nextLogId, client_ip, now, r.path)}
                            /\ nextLogId' = nextLogId + 1
                       ELSE UNCHANGED <<request_log, nextLogId>>
                    /\ reqs' = [reqs EXCEPT
                          ![s].pc = "done",
                          ![s].returned = r.response,
                          ![s].writes =
                              IF logged
                              THEN Append(@, Write("enriched", nextLogId))
                              ELSE @ \o <<Write("enriched", NULL),
                                          Write("fallback",
                                                IF fallback THEN nextLogId
                                                ELSE NULL)>>]
       /\ UNCHANGED <<now, registryVars, ops, rulesVars, alerts>>

ProcessResponse(s) == ProcessResponseWith(s, PipelineAnswers)

RequestInputs ==
    {[xff |-> <<IPA, PrivateIP>>, remote |-> PrivateIP],
     [xff |-> << >>, remote |-> PrivateIP],
     [xff |-> <<ShortIP>>, remote |-> IPA]}

\* MiddlewareMixin.__call__: process_request, then the view unless it
\* answered, then process_response
RequestOf(inputs, answers) ==
    \E s \in ReqSlots :
        \/ \E i \in inputs : ProcessRequest(s, i.xff, i.remote, <<"/">>)
        \/ \E response \in {"200", "404"} : View(s, response)
        \/ ProcessResponseWith(s, answers)

Request == RequestOf(RequestInputs, PipelineAnswers)

NextPipeline ==
    \/ Request
    \/ BlockWith({1}, {IPA}, {<< >>}, {NoExpires})
    \/ Unblock({1}, {IPA})
    \/ ProcessStart

SpecPipeline == Init /\ [][NextPipeline]_vars

\* C2: process_request answers 403 exactly when the client IP is in the
\* snapshot in force at the call, and answers nothing otherwise;
\* process_response returns the response it was given.
C2_Pipeline ==
    [][\A s \in ReqSlots :
          /\ (reqs[s].pc \in {"idle", "done"} /\ reqs'[s].pc \notin {"idle", "done"})
             => /\ reqs'[s].response = "403"
                   <=> get_client_ip(reqs'[s].xff, reqs'[s].remote)
                          \in blocked_ips_cache'[1]
                /\ reqs'[s].response \in {"403", "none"}
                /\ reqs'[s].response = "none" <=> reqs'[s].pc = "view"
          /\ (reqs[s].pc \in {"forbidden", "respond"} /\ reqs'[s].pc = "done")
             => reqs'[s].returned = reqs[s].response]_vars

\* A request was refused on the strength of the snapshot although the IP's
\* entry had been deleted, after an earlier request of the same client had
\* passed and a view's response had been returned.
C2_Witness ==
    /\ reqs[1].pc = "forbidden"
    /\ get_client_ip(reqs[1].xff, reqs[1].remote) = IPA
    /\ RowsOf(blocks, IPA) = {}
    /\ \E row \in request_log : row.ip = IPA /\ row.country # "Blocked"

\* C19: a failed insert or a failed geolocation lookup never changes the
\* response.  process_response returns the response it was given whatever the
\* inserts did; a refused request is answered 403 whether or not its row was
\* inserted; a failed enriched insert is followed by exactly one fallback
\* insert, the last of the request, whose row holds ip, path and timestamp
\* and no geolocation field.
C19_LoggingNeverChangesResponse ==
    \A s \in ReqSlots :
        LET r == reqs[s]
            n == Len(r.writes)
        IN /\ r.pc = "done"
                => r.returned = r.response /\ r.response \in {"403", "200", "404"}
           /\ (n > 0 /\ r.writes[1].kind = "blocked") => r.response = "403"
           /\ \A i \in 1..n :
                 /\ (r.writes[i].kind = "enriched" /\ r.writes[i].id = NULL)
                        => i + 1 = n /\ r.writes[n].kind = "fallback"
                 /\ r.writes[i].kind = "fallback"
                        => /\ i > 1 /\ r.writes[i - 1] = Write("enriched", NULL)
                           /\ \A row \in request_log :
                                 row.id = r.writes[i].id
                                    => /\ row.ip = get_client_ip(r.xff, r.remote)
                                       /\ row.path = r.path
                                       /\ row.timestamp = now
                                       /\ row.country = ""
                                       /\ row.lat = NULL
                                       /\ row.geolocation_source = ""
                                       /\ row.geolocation_updated = NULL

\* The geolocation lookup raised, the enriched insert and the fallback insert
\* both failed, and the view's 404 was returned; an earlier request of the
\* client had been logged by a fallback insert.
C19_Witness ==
    /\ reqs[1].pc = "done"
    /\ reqs[1].writes = <<Write("enriched", NULL), Write("fallback", NULL)>>
    /\ reqs[1].returned = "404"
    /\ last_res # << >> /\ last_res[1].raised
    /\ \E row \in request_log :
          row = FallbackRow(row.id, ShortIP, row.timestamp, <<"/">>)

\* The insert for a refused request failed and the request was answered 403
C19_WitnessForbidden ==
    /\ reqs[1].pc = "done"
    /\ reqs[1].writes = <<Write("blocked", NULL)>>
    /\ reqs[1].returned = "403"

-----------------------------------------------------------------------------
(* The two hooks of one request over time: the clock runs, so the snapshot   *)
(* of blocked IPs can be refreshed between process_request and               *)
(* process_response                                                          *)

HookInputs == {[xff |-> << >>, remote |-> IPA]}

HookRequest == RequestOf(HookInputs, {NoAnswer})

NextHooks ==
    \/ HookRequest
    \/ BlockWith({1}, {IPA}, {<< >>}, {NoExpires})
    \/ Unblock({1}, {IPA})
    \/ Tick

SpecHooks == Init /\ [][NextHooks]_vars

\* C39: the decision of process_request is a function of the peer address
\* and the snapshot in force: a request is answered 403 exactly when its
\* REMOTE_ADDR is in the snapshot, with or without an X-Forwarded-For header
\* (two requests of one peer address could otherwise be told apart by it).
C39_DecisionByPeerAddress ==
    [][\A s \in ReqSlots :
          (reqs[s].pc \in {"idle", "done"} /\ reqs'[s].pc \notin {"idle", "done"})
          => (reqs'[s].response = "403"
                 <=> reqs'[s].remote \in blocked_ips_cache'[1])]_vars

\* C39, requests without the header: the decision is that of the peer address
C39_NoHeader ==
    [][\A s \in ReqSlots :
          (/\ reqs[s].pc \in {"idle", "done"} /\ reqs'[s].pc \notin {"idle", "done"}
           /\ reqs'[s].xff = << >>)
          => (reqs'[s].response = "403"
                 <=> reqs'[s].remote \in blocked_ips_cache'[1])]_vars

\* the rows of RequestLog written for request r
RowsWritten(r) ==
    {row \in request_log : \E i \in DOMAIN r.writes : r.writes[i].id = row.id}

WritesSucceeded(r) == \A i \in DOMAIN r.writes : r.writes[i].id # NULL

\* C17: once both hooks of a request have run and every insert they attempted
\* succeeded, RequestLog holds exactly one row written for the request.
C17_OneEventPerRequest ==
    \A s \in ReqSlots :
        (reqs[s].pc = "done" /\ WritesSucceeded(reqs[s]))
            => Cardinality(RowsWritten(reqs[s])) = 1

\* C17, the case without a refresh: when the snapshot gives both hooks the
\* same answer, exactly one row is written
C17_OneEventSameAnswer ==
    \A s \in ReqSlots :
        (/\ reqs[s].pc = "done"
         /\ WritesSucceeded(reqs[s])
         /\ (reqs[s].response = "403") = last_check.result
         /\ last_check.ip # << >>)
            => Cardinality(RowsWritten(reqs[s])) = 1

-----------------------------------------------------------------------------
(* The analysis pass (tasks.py): detect_anomalies and its three rules       *)

\* The names bound in the namespace of module tasks: those its import
\* statements bind (lines 1-16), logger, and its functions.  Evaluating any
\* other name raises NameError.
TaskGlobals ==
    {"shared_task", "timezone", "Count", "Q", "F", "transaction", "timedelta",
     "logging", "RequestLog", "SuspiciousIP", "BlockedIP",
     "AnomalyDetectionConfig", "settings", "send_mail", "json", "defaultdict",
     "logger", "detect_anomalies", "detect_high_frequency_ips",
     "detect_sensitive_path_access", "detect_error_patterns", "auto_block_ip",
     "clear_old_suspicious_ips", "analyze_ip_behavior", "send_alert_email",
     "generate_daily_report"}

NameBound(name) == name \in TaskGlobals

\* The names a RequestLog query can filter on: the model's fields
RequestLogFields ==
    {"id", "ip_address", "timestamp", "path", "country", "country_code",
     "city", "region", "latitude", "longitude", "timezone", "isp",
     "geolocation_updated", "geolocation_source", "is_suspicious",
     "anomaly_reason"}

DefaultName == "Default Anomaly Detection"

\* lines 33-40: the configuration a pass creates when none is enabled; the
\* fields not given take the defaults of the model
DefaultConfig(id) ==
    Config(id, DefaultName, TRUE, 100, 1,
           << <<"/", "admin">>, <<"/", "login">>, <<"/", "wp-", "login", ".php">>,
              <<"/", "phpmy", "admin">>, <<"/", "config">>, <<".env">> >>,
           TRUE, TRUE, FALSE, FALSE, "medium")

\* AnomalyDetectionConfig.objects.filter(enabled=True).first(): the enabled
\* row of the lowest primary key, NoConfig for None
EnabledConfig(tbl) ==
    LET en == {c \in tbl : c.enabled}
    IN IF en = {} THEN NoConfig
       ELSE CHOOSE c \in en : \A d \in en : c.id <= d.id

\* the primary key the next inserted configuration gets
NextConfigId(tbl) ==
    IF tbl = {} THEN 1
    ELSE 1 + (CHOOSE i \in {c.id : c \in tbl} : \A c \in tbl : c.id <= i)

\* What a rule reads and writes
Store(susp, nsid, blk, nbid, log, sent) ==
    [suspicious |-> susp, nextSuspId |-> nsid, blocks |-> blk,
     nextBlockId |-> nbid, request_log |-> log, alerts |-> sent]

Outcome(raised, store) == [raised |-> raised, store |-> store]

WindowRows(log, ip, tt) == {r \in log : r.ip = ip /\ r.timestamp >= tt}

RequestCount(log, ip, tt) == Cardinality(WindowRows(log, ip, tt))

\* lines 73-81: the addresses whose count in the window exceeds the threshold
ip_counts(log, tt, threshold) ==
    {ip \in {r.ip : r \in log} : RequestCount(log, ip, tt) > threshold}

\* SuspiciousIP.objects.update_or_create(ip_address, reason, defaults):
\* first_detected is set on insert only, last_detected on every save
Upsert(tbl, nid, ip, reason, severity, n, t) ==
    LET old == {r \in tbl : r.ip = ip /\ r.reason = reason}
    IN IF old = {}
       THEN [tbl |-> tbl \cup {SuspRow(nid, ip, reason, severity, n, t, t, TRUE, FALSE)},
             id |-> nid, next |-> nid + 1]
       ELSE LET o == CHOOSE r \in old : TRUE
            IN [tbl |-> (tbl \ {o}) \cup
                          {[o EXCEPT !.severity = severity, !.request_count = n,
                                     !.is_active = TRUE, !.last_detected = t]},
                id |-> o.id, next |-> nid]

\* lines 85-134, for one address of ip_counts
FrequencyBody(st, ip, config, tt, t) ==
    LET n  == RequestCount(st.request_log, ip, tt)
        up == Upsert(st.suspicious, st.nextSuspId, ip, "high_frequency",
                     config.severity_level, n, t)
        marked == {IF r.ip = ip /\ r.timestamp >= tt
                   THEN [r EXCEPT !.is_suspicious = TRUE,
                                  !.anomaly_reason = "High frequency"]
                   ELSE r : r \in st.request_log}
        escalate == config.auto_block /\ n > config.threshold * 2
        \* auto_block_ip(ip_address, 'high_frequency', suspicious_ip), called in
        \* place with the record itself as suspicious_ip_id: the row is
        \* inserted, the lookup get(id=<record>) raises TypeError, the task's
        \* except clause returns False and no alert is sent
        inserted == escalate /\ ~BlockExists(st.blocks, ip)
        blk == IF inserted
               THEN st.blocks \cup
                      {BlockRow(st.nextBlockId, ip, AutoReason("high_frequency"),
                                t, AutoExpiry(t))}
               ELSE st.blocks
        \* suspicious_ip.auto_blocked = True; suspicious_ip.save()
        susp == IF escalate THEN MarkAutoBlocked(up.tbl, up.id, t) ELSE up.tbl
        sent == IF n > config.threshold * 5
                THEN send_alert_email(st.alerts, "critical", ip) ELSE st.alerts
    IN IF BlockExists(st.blocks, ip) THEN st
       ELSE Store(susp, up.next, blk,
                  IF inserted THEN st.nextBlockId + 1 ELSE st.nextBlockId,
                  marked, sent)

\* the loop of lines 85-134 over ip_counts, ordered by -request_count
RECURSIVE FrequencyLoop(_, _, _, _, _)
FrequencyLoop(st, todo, config, tt, t) ==
    IF todo = {} THEN st
    ELSE LET ip == CHOOSE i \in todo : \A j \in todo :
                      RequestCount(st.request_log, i, tt)
                          >= RequestCount(st.request_log, j, tt)
         IN FrequencyLoop(FrequencyBody(st, ip, config, tt, t), todo \ {ip},
                          config, tt, t)

\* detect_high_frequency_ips, lines 66-136.  Building the query evaluates
\* models.Max('timestamp') (line 78) before anything is read or written.
detect_high_frequency_ips(st, config, tt, t) ==
    IF ~NameBound("models") THEN Outcome("NameError", st)
    ELSE Outcome("none",
                 FrequencyLoop(st, ip_counts(st.request_log, tt, config.threshold),
                               config, tt, t))

\* AnomalyDetectionConfig.get_sensitive_paths_list, models.py lines 276-280;
\* the field is kept as its parts between the commas
get_sensitive_paths_list(config) ==
    SelectSeq([i \in DOMAIN config.sensitive_paths |->
                  Strip(config.sensitive_paths[i])], NonEmpty)

\* lines 151-157: one lookup per entry, joined with OR
sensitive_path_q(paths) ==
    {[lookup |-> IF Head(paths[i]) = "/" THEN "startswith" ELSE "contains",
      value |-> paths[i]] : i \in DOMAIN paths}

\* the WHERE clause of sensitive_path_q on a row's path
QMatches(q, path) ==
    \E l \in q : IF l.lookup = "startswith" THEN IsPrefix(l.value, path)
                 ELSE IsInfix(l.value, path)

\* lines 160-166: the window's rows of ip on sensitive paths
SensitiveRows(log, ip, tt, q) ==
    {r \in WindowRows(log, ip, tt) : QMatches(q, r.path)}

\* lines 170-223, for one address of sensitive_access
SensitiveBody(st, ip, config, tt, t, q) ==
    LET rows == SensitiveRows(st.request_log, ip, tt, q)
        access_count == Cardinality(rows)
        paths == Cardinality({r.path : r \in rows})
        up == Upsert(st.suspicious, st.nextSuspId, ip, "sensitive_paths",
                     IF access_count > 10 THEN "high" ELSE config.severity_level,
                     access_count, t)
        marked == {IF r \in rows
                   THEN [r EXCEPT !.is_suspicious = TRUE,
                                  !.anomaly_reason = "Sensitive path access"]
                   ELSE r : r \in st.request_log}
        escalate == config.auto_block /\ paths > 2
        \* auto_block_ip(ip_address, 'sensitive_paths', suspicious_ip), as in
        \* the frequency rule
        inserted == escalate /\ ~BlockExists(st.blocks, ip)
        blk == IF inserted
               THEN st.blocks \cup
                      {BlockRow(st.nextBlockId, ip, AutoReason("sensitive_paths"),
                                t, AutoExpiry(t))}
               ELSE st.blocks
        susp == IF escalate THEN MarkAutoBlocked(up.tbl, up.id, t) ELSE up.tbl
        sent == IF paths > 3
                THEN send_alert_email(st.alerts, "sensitive_paths", ip)
                ELSE st.alerts
    IN IF BlockExists(st.blocks, ip) THEN st
       ELSE Store(susp, up.next, blk,
                  IF inserted THEN st.nextBlockId + 1 ELSE st.nextBlockId,
                  marked, sent)

\* the loop of lines 170-223 over sensitive_access, ordered by -access_count
RECURSIVE SensitiveLoop(_, _, _, _, _, _)
SensitiveLoop(st, todo, config, tt, t, q) ==
    IF todo = {} THEN st
    ELSE LET ip == CHOOSE i \in todo : \A j \in todo :
                      Cardinality(SensitiveRows(st.request_log, i, tt, q))
                          >= Cardinality(SensitiveRows(st.request_log, j, tt, q))
         IN SensitiveLoop(SensitiveBody(st, ip, config, tt, t, q), todo \ {ip},
                          config, tt, t, q)

\* detect_sensitive_path_access, lines 139-224: the early return, and the
\* query, whose arguments include models.functions.GroupConcat (line 165)
detect_sensitive_path_access(st, config, tt, t) ==
    LET sensitive_paths == get_sensitive_paths_list(config)
        q == sensitive_path_q(sensitive_paths)
        sensitive_access ==
            {ip \in {r.ip : r \in st.request_log} :
                SensitiveRows(st.request_log, ip, tt, q) # {}}
    IN IF sensitive_paths = << >> THEN Outcome("none", st)
       ELSE IF ~NameBound("models") THEN Outcome("NameError", st)
       ELSE Outcome("none", SensitiveLoop(st, sensitive_access, config, tt, t, q))

\* detect_error_patterns, lines 227-247: the query filters on status_class,
\* an alias added with extra(), which is no field of RequestLog
detect_error_patterns(st) ==
    Outcome(IF "status_class" \in RequestLogFields THEN "none" ELSE "FieldError", st)

CurrentStore == Store(suspicious, nextSuspId, blocks, nextBlockId, request_log, alerts)

passFrame == <<now, snapshotVars, ops, reqs, nextLogId, geoStore>>

\* the store a rule leaves, written back
Written(st) ==
    /\ suspicious' = st.suspicious
    /\ nextSuspId' = st.nextSuspId
    /\ blocks' = st.blocks
    /\ nextBlockId' = st.nextBlockId
    /\ request_log' = st.request_log
    /\ last_change' = [ip \in DOMAIN last_change |->
                          IF RowsOf(st.blocks, ip) # RowsOf(blocks, ip)
                          THEN now ELSE last_change[ip]]

\* lines 60-63: the except clause of detect_anomalies
Failed(p, sent, ran_at) ==
    /\ passes' = [passes EXCEPT ![p].pc = "done", ![p].result = "False",
                                ![p].ran_at = ran_at]
    /\ alerts' = send_alert_email(sent, "task_failed", << >>)

InProgress == {p \in PassSlots : passes[p].pc \notin {"idle", "done"}}

\* lines 26-31 and 43: the run starts and reads the configuration
PassStart(p) ==
    LET config == EnabledConfig(configs)
    IN /\ passes[p].pc \in {"idle", "done"}
       /\ Len(alerts) + Cardinality(InProgress) < MaxAlerts
       /\ passes' = [passes EXCEPT ![p] =
             IF config = NoConfig
             THEN Pass("create", NoConfig, 0, NULL, "none")
             ELSE Pass("frequency", config,
                       now - config.time_window_hours * HourSeconds, NULL, "none")]
       /\ UNCHANGED <<registryVars, suspicious, nextSuspId, configs, request_log,
                      alerts, passFrame>>
       /\ Quiet

\* lines 33-43: the default configuration is inserted; name is unique
PassCreateDefault(p) ==
    LET id == NextConfigId(configs)
    IN /\ passes[p].pc = "create"
       /\ IF \E c \in configs : c.name = DefaultName
          THEN /\ Failed(p, alerts, NULL)
               /\ UNCHANGED configs
          ELSE /\ configs' = configs \cup {DefaultConfig(id)}
               /\ passes' = [passes EXCEPT ![p] =
                     Pass("frequency", DefaultConfig(id),
                          now - DefaultConfig(id).time_window_hours * HourSeconds,
                          NULL, "none")]
               /\ UNCHANGED alerts
       /\ UNCHANGED <<registryVars, suspicious, nextSuspId, request_log, passFrame>>
       /\ Quiet

\* lines 45-47
PassFrequency(p) ==
    LET run == passes[p]
        out == detect_high_frequency_ips(CurrentStore, run.config,
                                         run.time_threshold, now)
    IN /\ run.pc = "frequency"
       /\ IF ~run.config.check_frequency
          THEN /\ passes' = [passes EXCEPT ![p].pc = "sensitive"]
               /\ UNCHANGED <<registryVars, suspicious, nextSuspId, request_log, alerts>>
          ELSE IF out.raised # "none"
          THEN /\ Failed(p, out.store.alerts, now)
               /\ UNCHANGED <<registryVars, suspicious, nextSuspId, request_log>>
          ELSE /\ Written(out.store)
               /\ alerts' = out.store.alerts
               /\ passes' = [passes EXCEPT ![p].pc = "sensitive", ![p].ran_at = now]
       /\ UNCHANGED <<configs, passFrame>>
       /\ Quiet

\* lines 49-51
PassSensitive(p) ==
    LET run == passes[p]
        out == detect_sensitive_path_access(CurrentStore, run.config,
                                            run.time_threshold, now)
    IN /\ run.pc = "sensitive"
       /\ IF ~run.config.check_sensitive_paths
          THEN /\ passes' = [passes EXCEPT ![p].pc = "errors"]
               /\ UNCHANGED <<registryVars, suspicious, nextSuspId, request_log, alerts>>
          ELSE IF out.raised # "none"
          THEN /\ Failed(p, out.store.alerts, run.ran_at)
               /\ UNCHANGED <<registryVars, suspicious, nextSuspId, request_log>>
          ELSE /\ Written(out.store)
               /\ alerts' = out.store.alerts
               /\ passes' = [passes EXCEPT ![p].pc = "errors"]
       /\ UNCHANGED <<configs, passFrame>>
       /\ Quiet

\* lines 53-58
PassErrors(p) ==
    LET run == passes[p]
        out == detect_error_patterns(CurrentStore)
    IN /\ run.pc = "errors"
       /\ IF ~run.config.check_error_rate
          THEN /\ passes' = [passes EXCEPT ![p].pc = "done", ![p].result = "True"]
               /\ UNCHANGED <<registryVars, suspicious, nextSuspId, request_log, alerts>>
          ELSE IF out.raised # "none"
          THEN /\ Failed(p, out.store.alerts, run.ran_at)
               /\ UNCHANGED <<registryVars, suspicious, nextSuspId, request_log>>
          ELSE /\ Written(out.store)
               /\ alerts' = out.store.alerts
               /\ passes' = [passes EXCEPT ![p].pc = "done", ![p].result = "True"]
       /\ UNCHANGED <<configs, passFrame>>
       /\ Quiet

\* The event windows and configuration tables the passes are run on
EventCounts == {0, 100, 101, 150, 201, 501}

Window(n) == {LogRow(i, IPA, 0, <<"/">>, "", NULL, "", NULL) : i \in 1..n}

\* the paths of a window of requests to sensitive and to other paths
PathInputs ==
    << <<"/", "admin", "/", "users">>, <<"/", "admin", "/", "users">>,
       <<"/", "blog", "/", "wp-", "login", ".php">>, <<"/", "home", "/", ".env">>,
       <<"/", "home">>, <<"/", "ADMIN">> >>

PathWindow ==
    {LogRow(i, IPA, 0, PathInputs[i], "", NULL, "", NULL) : i \in DOMAIN PathInputs}


AdminConfig(cf, cs, ce, auto, paths) ==
    Config(1, "Site", TRUE, 100, 1, paths, cf, cs, ce, auto, "low")

ConfigTables ==
    {{},
     {[DefaultConfig(1) EXCEPT !.enabled = FALSE]},
     {AdminConfig(TRUE, TRUE, FALSE, TRUE, << <<"/", "admin">> >>)},
     {AdminConfig(FALSE, TRUE, FALSE, FALSE,
                  << <<Blank, "/", "admin">>, <<"login", Blank>>, <<Blank>> >>)},
     {AdminConfig(FALSE, TRUE, TRUE, FALSE, << >>)},
     {AdminConfig(FALSE, FALSE, FALSE, FALSE, << >>)}}

InitRules ==
    /\ now = 0
    /\ blocks = {}
    /\ nextBlockId = 1
    /\ last_change = [ip \in IPs |-> 0]
    /\ blocked_ips_cache = NoneCache
    /\ last_cache_update = 0
    /\ last_check = NoCheck
    /\ ops = [o \in AllSlots |-> IdleOp]
    /\ reqs = [s \in ReqSlots |-> IdleReq]
    /\ \/ \E n \in EventCounts : request_log = Window(n) /\ nextLogId = n + 1
       \/ request_log = PathWindow /\ nextLogId = Len(PathInputs) + 1
    /\ suspicious = {}
    /\ nextSuspId = 1
    /\ configs \in ConfigTables
    /\ passes = [p \in PassSlots |-> IdlePass]
    /\ alerts = << >>
    /\ mem_cache = {}
    /\ geo_db = {}
    /\ last_res = << >>
    /\ prev_res = << >>

\* A call of detect_anomalies in slot p ends at the import of its module
PassImportFails(p) ==
    /\ passes[p].pc \in {"idle", "done"}
    /\ passes' = [passes EXCEPT ![p] = Pass("done", NoConfig, 0, now, "SyntaxError")]
    /\ UNCHANGED <<registryVars, suspicious, nextSuspId, configs, request_log,
                   alerts, passFrame>>
    /\ Quiet

\* A call of detect_anomalies, by the worker or by detect_anomalies_now: the
\* module is imported, then the body runs
AnalysisPass ==
    IF Importable("ip_tracking.tasks")
    THEN \E p \in PassSlots :
            \/ PassStart(p)
            \/ PassCreateDefault(p)
            \/ PassFrequency(p)
            \/ PassSensitive(p)
            \/ PassErrors(p)
    ELSE \E p \in PassSlots : PassImportFails(p)

NextRules == AnalysisPass \/ Tick

SpecRules == InitRules /\ [][NextRules]_vars

Records(ip, reason) == {r \in suspicious : r.ip = ip /\ r.reason = reason}

\* the configuration the passes evaluate: the enabled row of the table
Evaluated == EnabledConfig(configs)

\* a pass was called in slot p at ran_at and has ended, and the table holds a
\* configuration that asks for the frequency rule
RanFrequency(p) ==
    /\ passes[p].pc = "done" /\ passes[p].ran_at # NULL
    /\ Evaluated # NoConfig /\ Evaluated.check_frequency

\* the requests of ip in the window of the pass in slot p
CountIn(p, ip) ==
    RequestCount(request_log, ip,
                 passes[p].ran_at - Evaluated.time_window_hours * HourSeconds)

OverThreshold(p, ip) == CountIn(p, ip) > Evaluated.threshold

C6_FlaggedIffOverThreshold ==
    \A p \in PassSlots, ip \in IPs :
        (RanFrequency(p) /\ ~BlockExists(blocks, ip))
        => LET flagged == {r \in Records(ip, "high_frequency") : r.is_active}
           IN /\ flagged # {} <=> OverThreshold(p, ip)
              /\ \A r \in flagged : r.severity = Evaluated.severity_level

\* C7: when a pass has ended, an address has a BlockedIP row exactly when
\* auto_block is set and its count is greater than twice the threshold;
\* between the threshold and twice the threshold it has one active record
\* with auto_blocked false and no BlockedIP row.  (No command blocks an
\* address here: the passes run on a registry that starts empty.)
C7_BlockedIffOverTwice ==
    \A p \in PassSlots, ip \in IPs :
        RanFrequency(p)
        => LET n == CountIn(p, ip)
               active == {r \in suspicious : r.ip = ip /\ r.is_active}
           IN /\ BlockExists(blocks, ip)
                 <=> (Evaluated.auto_block /\ n > 2 * Evaluated.threshold)
              /\ (n > Evaluated.threshold /\ n <= 2 * Evaluated.threshold)
                 => /\ Cardinality(active) = 1
                    /\ \A r \in active : ~r.auto_blocked
                    /\ ~BlockExists(blocks, ip)

\* the claim's sensitive hit: an entry that starts with "/" is a prefix of the
\* path, or an entry that does not occurs somewhere in it
SensitiveHit(path, entries) ==
    \E i \in DOMAIN entries :
        LET e == entries[i]
        IN \/ Head(e) = "/" /\ IsPrefix(e, path)
           \/ Head(e) # "/" /\ IsInfix(e, path)

\* the events of ip in the window of the pass in slot p that are hits, each
\* counted once
HitCount(p, ip) ==
    Cardinality({r \in WindowRows(request_log, ip,
                                   passes[p].ran_at
                                      - Evaluated.time_window_hours * HourSeconds) :
                    SensitiveHit(r.path, get_sensitive_paths_list(Evaluated))})

\* C13: when a pass that checks sensitive paths has ended, an address without
\* a BlockedIP row has a sensitive_paths record exactly when some event of
\* its in the window is a sensitive hit (an entry starting with "/" is a
\* prefix of the path, any other entry occurs in it), and the record's count
\* is the number of those events, each counted once.
C13_SensitiveHits ==
    \A p \in PassSlots, ip \in IPs :
        (/\ passes[p].pc = "done" /\ passes[p].ran_at # NULL
         /\ Evaluated # NoConfig /\ Evaluated.check_sensitive_paths
         /\ ~BlockExists(blocks, ip))
        => /\ Records(ip, "sensitive_paths") # {} <=> HitCount(p, ip) > 0
           /\ \A r \in Records(ip, "sensitive_paths") :
                 r.request_count = HitCount(p, ip)

\* an operator's configuration is enabled: the passes had one to read (rows
\* are only ever added to the table, and the passes add none of that name)
OperatorConfigEnabled == \E c \in configs : c.enabled /\ c.name # DefaultName

\* C20: when a pass has ended and no operator's configuration is enabled, the
\* table holds an enabled default configuration (threshold 100, window 1 hour,
\* severity medium), the pass evaluated the rules with it, and it returned
\* True.
C20_DefaultSynthesized ==
    \A p \in PassSlots :
        (passes[p].pc = "done" /\ ~OperatorConfigEnabled)
        => /\ passes[p].result = "True"
           /\ \E c \in configs :
                 /\ c.enabled
                 /\ c.threshold = 100
                 /\ c.time_window_hours = 1
                 /\ c.severity_level = "medium"
                 /\ passes[p].config = c

\* the failure mails among the mails sent
FailureAlerts(sent) ==
    Cardinality({i \in DOMAIN sent : sent[i].kind = "task_failed"})

\* the step in which the pass in slot p ends
PassEnds(p) == passes'[p] # passes[p] /\ passes'[p].pc = "done"

\* C21: a pass that ends without having completed has returned False and
\* sent exactly one failure mail, and the step in which it fails leaves the
\* SuspiciousIP and BlockedIP rows written before it as they were.
C21_FailureCaught ==
    [][\A p \in PassSlots :
          (PassEnds(p) /\ passes'[p].result # "True")
          => /\ passes'[p].result = "False"
             /\ FailureAlerts(alerts') = FailureAlerts(alerts) + 1
             /\ suspicious' = suspicious
             /\ blocks' = blocks]_vars

-----------------------------------------------------------------------------
(* Passes on a store that earlier passes and commands have written: records *)
(* of the address exist, and it may have a BlockedIP row, expired or not    *)

RecordsNow == 60          \* the time the passes start at

\* the records of earlier passes, written at time 0
RecordTables ==
    SUBSET {SuspRow(1, IPA, "high_frequency", "critical", 150, 0, 0, TRUE, FALSE),
            SuspRow(2, IPA, "sensitive_paths", "high", 11, 0, 0, TRUE, FALSE)}

\* no row; a row that expired at 30; a row that does not expire
BlockTables ==
    {{}, {BlockRow(1, IPA, <<"spam">>, 0, 30)}, {BlockRow(1, IPA, <<"spam">>, 0, NULL)}}

\* a window of twelve requests of one address, eleven of them to a path the
\* site does not serve
ErrorWindow ==
    {LogRow(i, IPA, 0, IF i = 1 THEN <<"/">> ELSE <<"/", "missing">>,
            "", NULL, "", NULL) : i \in 1..12}

\* a window of 201 requests of one address, three of them under /admin
MixedWindow ==
    {LogRow(i, IPA, 0, IF i <= 3 THEN <<"/", "admin", "/", "users">> ELSE <<"/">>,
            "", NULL, "", NULL) : i \in 1..201}

\* a window of twelve requests of one address, all of them to sensitive
\* paths, three different ones
SensitiveWindow ==
    {LogRow(i, IPA, 0,
            IF i <= 10 THEN <<"/", "admin", "/", "users">>
            ELSE IF i = 11 THEN <<"/", "home", "/", ".env">> ELSE <<"/", "admin">>,
            "", NULL, "", NULL) : i \in 1..12}

RecordConfigs ==
    {{AdminConfig(TRUE, TRUE, FALSE, TRUE, << <<"/", "admin">> >>)},
     {AdminConfig(TRUE, TRUE, TRUE, FALSE, << <<"/", "admin">> >>)},
     {AdminConfig(FALSE, TRUE, FALSE, TRUE, << <<"/", "admin">>, <<".env">> >>)},
     {AdminConfig(FALSE, FALSE, TRUE, TRUE, << <<"/", "admin">> >>)}}

InitRecords ==
    /\ now = RecordsNow
    /\ blocks \in BlockTables
    /\ nextBlockId = 2
    /\ last_change = [ip \in IPs |-> 0]
    /\ blocked_ips_cache = NoneCache
    /\ last_cache_update = 0
    /\ last_check = NoCheck
    /\ ops = [o \in AllSlots |-> IdleOp]
    /\ reqs = [s \in ReqSlots |-> IdleReq]
    /\ \/ \E n \in {101, 201} : request_log = Window(n) /\ nextLogId = n + 1
       \/ request_log = PathWindow /\ nextLogId = Len(PathInputs) + 1
       \/ request_log = ErrorWindow /\ nextLogId = 13
       \/ request_log = MixedWindow /\ nextLogId = 202
       \/ request_log = SensitiveWindow /\ nextLogId = 13
    /\ suspicious \in RecordTables
    /\ nextSuspId = 3
    /\ configs \in RecordConfigs
    /\ passes = [p \in PassSlots |-> IdlePass]
    /\ alerts = << >>
    /\ mem_cache = {}
    /\ geo_db = {}
    /\ last_res = << >>
    /\ prev_res = << >>

SpecRecords == InitRecords /\ [][NextRules]_vars

\* the order of the severities, models.py lines 158-167
Rank(severity) ==
    CASE severity = "low" -> 1
      [] severity = "medium" -> 2
      [] severity = "high" -> 3
      [] severity = "critical" -> 4
      [] OTHER -> 0

ResponseStatus(row) == IF row.path = <<"/">> THEN 200 ELSE 404

\* a 4xx or 5xx response
IsError(row) == ResponseStatus(row) >= 400

\* the error events of ip in the window of the pass in slot p
ErrorEvents(p, ip) ==
    {r \in WindowRows(request_log, ip,
                      passes[p].ran_at - Evaluated.time_window_hours * HourSeconds) :
        IsError(r)}

\* error_count / total_requests > 0.5 and total_requests > 10
HighErrorRate(p, ip) ==
    /\ 2 * Cardinality(ErrorEvents(p, ip)) > CountIn(p, ip)
    /\ CountIn(p, ip) > 10

\* a pass was called in slot p and has ended, on a configuration table with
\* an enabled row
Ran(p) == passes[p].pc = "done" /\ passes[p].ran_at # NULL /\ Evaluated # NoConfig

\* ip has had an active BlockedIP row since before the first pass was called
BlockedBefore(ip) ==
    \E b \in RowsOf(blocks, ip) : b.created_at < RecordsNow /\ IsActive(b, now)

\* the frequency and sensitive-path rules of the passes passed over ip
SkippedByRules(ip) ==
    /\ \A r \in Records(ip, "high_frequency") \cup Records(ip, "sensitive_paths") :
          r.last_detected < RecordsNow
    /\ \A e \in request_log :
          e.ip = ip => e.anomaly_reason
                          \notin {"High frequency", "Sensitive path access"}
    /\ \A i \in DOMAIN alerts :
          ~(alerts[i].kind = "auto_blocked" /\ alerts[i].ip = ip)
    /\ Cardinality(RowsOf(blocks, ip)) = 1

\* C23: when a pass has ended, an address that was blocked before the passes
\* has no high_frequency or sensitive_paths record written by a pass, none of its
\* events annotated by those rules and no auto-block made for it; if the
\* error-rate rule is on and more than half of its more than ten events are
\* errors, it has a multiple_errors record and its error events are marked.
C23_BlockedSkippedButErrors ==
    \A p \in PassSlots, ip \in IPs :
        (Ran(p) /\ BlockedBefore(ip))
        => /\ SkippedByRules(ip)
           /\ (Evaluated.check_error_rate /\ HighErrorRate(p, ip))
                 => /\ Records(ip, "multiple_errors") # {}
                    /\ \A e \in ErrorEvents(p, ip) : e.is_suspicious

\* ip has a BlockedIP row made before the passes with an expiry: the row had
\* expired when the first pass was called
HadExpiredRow(ip) ==
    \E b \in RowsOf(blocks, ip) : b.created_at < RecordsNow /\ b.expires_at # NULL

\* C24: when a pass with auto_block on has ended in whose window an address
\* with an expired BlockedIP row exceeds twice the threshold, the pass has
\* updated or created the address's high_frequency record and the address has
\* a row that is active until 24 hours after the pass or later.
C24_ExpiredCountsAsUnblocked ==
    \A p \in PassSlots, ip \in IPs :
        (/\ RanFrequency(p) /\ Evaluated.auto_block
         /\ CountIn(p, ip) > 2 * Evaluated.threshold
         /\ HadExpiredRow(ip))
        => /\ \E r \in Records(ip, "high_frequency") :
                 r.last_detected >= passes[p].ran_at
           /\ \E b \in RowsOf(blocks, ip) :
                 /\ IsActive(b, now)
                 /\ b.expires_at # NULL
                 /\ b.expires_at >= AutoExpiry(passes[p].ran_at)

\* lines 45-55 of detect_anomalies with the three rules called in the given
\* order: a rule that raises ends the pass, what was written before remains
RECURSIVE RunRules(_, _, _, _, _)
RunRules(order, st, config, tt, t) ==
    IF order = << >> THEN st
    ELSE LET rule == Head(order)
             out == CASE rule = "frequency" ->
                            IF config.check_frequency
                            THEN detect_high_frequency_ips(st, config, tt, t)
                            ELSE Outcome("none", st)
                      [] rule = "sensitive" ->
                            IF config.check_sensitive_paths
                            THEN detect_sensitive_path_access(st, config, tt, t)
                            ELSE Outcome("none", st)
                      [] OTHER ->
                            IF config.check_error_rate
                            THEN detect_error_patterns(st)
                            ELSE Outcome("none", st)
         IN IF out.raised # "none" THEN out.store
            ELSE RunRules(Tail(order), out.store, config, tt, t)

RuleOrders ==
    {o \in [1..3 -> {"frequency", "sensitive", "errors"}] :
        \A i, j \in 1..3 : i # j => o[i] # o[j]}

\* what a pass called now, with its rules in the given order, leaves of the
\* current store: the records and BlockedIP rows (primary keys aside) and the
\* events
LeftBy(order) ==
    LET st == IF Importable("ip_tracking.tasks") /\ Evaluated # NoConfig
              THEN RunRules(order, CurrentStore, Evaluated,
                            now - Evaluated.time_window_hours * HourSeconds, now)
              ELSE CurrentStore
    IN [records |-> {[r EXCEPT !.id = 0] : r \in st.suspicious},
        blocks |-> {[b EXCEPT !.id = 0] : b \in st.blocks},
        events |-> st.request_log]

\* C25: a pass leaves the same records, BlockedIP rows and event annotations
\* whatever the order its rules are called in; and when a pass with the
\* frequency and the sensitive-path rule on has ended, an address that had no
\* BlockedIP row before the passes and matches both rules has a record for
\* each of the two reasons.
C25_RuleOrderIndependent ==
    /\ \A o1 \in RuleOrders, o2 \in RuleOrders : LeftBy(o1) = LeftBy(o2)
    /\ \A p \in PassSlots, ip \in IPs :
          (/\ RanFrequency(p) /\ Evaluated.check_sensitive_paths
           /\ OverThreshold(p, ip) /\ HitCount(p, ip) > 0
           /\ ~\E b \in RowsOf(blocks, ip) : b.created_at < RecordsNow)
          => /\ Cardinality(Records(ip, "high_frequency")) = 1
             /\ Cardinality(Records(ip, "sensitive_paths")) = 1

\* C26: when a pass with the error-rate rule on has ended, an address has a
\* multiple_errors record exactly when more than half of its events in the
\* window are errors and it has more than ten events; the record's severity
\* is high when more than 0.8 of the events are errors and medium otherwise,
\* and its request_count is the number of all its events in the window.
C26_ErrorRate ==
    \A p \in PassSlots, ip \in IPs :
        (Ran(p) /\ Evaluated.check_error_rate)
        => /\ Records(ip, "multiple_errors") # {} <=> HighErrorRate(p, ip)
           /\ \A r \in Records(ip, "multiple_errors") :
                 /\ r.severity =
                       IF 5 * Cardinality(ErrorEvents(p, ip)) > 4 * CountIn(p, ip)
                       THEN "high" ELSE "medium"
                 /\ r.request_count = CountIn(p, ip)

\* the different paths among the sensitive hits of ip in the window of the
\* pass in slot p
DistinctHits(p, ip) ==
    Cardinality({r.path : r \in
        {r \in WindowRows(request_log, ip,
                          passes[p].ran_at
                             - Evaluated.time_window_hours * HourSeconds) :
            SensitiveHit(r.path, get_sensitive_paths_list(Evaluated))}})

\* the rows the sensitive-path rule's escalation leaves for ip
SensitiveBlocks(ip) ==
    {r \in RowsOf(blocks, ip) : r.reason = AutoReason("sensitive_paths")}

\* C27: when a pass that checks sensitive paths has ended, an address with
\* no BlockedIP row of another origin and at least one sensitive hit in the
\* window has one active sensitive_paths record written by the passes, of
\* severity high if it has more than 10 hits and of the configuration's
\* severity_level otherwise; and the rule has escalated it, leaving its
\* auto-block row, exactly when auto_block is set and the hits are on more
\* than 2 different paths.
C27_SensitiveRule ==
    \A p \in PassSlots, ip \in IPs :
        (/\ Ran(p) /\ Evaluated.check_sensitive_paths
         /\ RowsOf(blocks, ip) = SensitiveBlocks(ip))
        => /\ HitCount(p, ip) > 0
              => /\ Cardinality(Records(ip, "sensitive_paths")) = 1
                 /\ \A r \in Records(ip, "sensitive_paths") :
                       /\ r.is_active
                       /\ r.last_detected >= RecordsNow
                       /\ r.severity = IF HitCount(p, ip) > 10 THEN "high"
                                       ELSE Evaluated.severity_level
           /\ SensitiveBlocks(ip) # {}
                 <=> (Evaluated.auto_block /\ DistinctHits(p, ip) > 2)

\* the rows auto_block_ip has created for ip
AutoRows(ip) ==
    {r \in RowsOf(blocks, ip) : \E reason \in RuleReasons : r.reason = AutoReason(reason)}

\* the alerts sent that describe a block of ip
AutoAlerts(ip) ==
    Cardinality({i \in DOMAIN alerts : alerts[i] = Alert("auto_blocked", ip)})

-----------------------------------------------------------------------------
(* analyze_ip_behavior (tasks.py), called by the analyze_ip command *)

\* what the task returns: {"error": ...} or the analysis, of which the count
\* of sensitive accesses and the reasons are kept
Analysis(error, sensitive_access, reasons) ==
    [error |-> error, sensitive_access_count |-> sensitive_access,
     reasons |-> reasons]

\* lines 406-408: path__in=sensitive_paths, or the empty Q() which selects
\* every row, when the list is empty
SensitiveAccess(logs, sensitive_paths) ==
    IF sensitive_paths = << >> THEN logs
    ELSE {r \in logs : \E i \in DOMAIN sensitive_paths : r.path = sensitive_paths[i]}

\* lines 391-396: requests_per_hour > config.threshold, in whole seconds
requests_per_hour_over(logs, threshold) ==
    LET total == Cardinality(logs)
        first == CHOOSE r \in logs : \A q \in logs : r.timestamp <= q.timestamp
        last == CHOOSE r \in logs : \A q \in logs : r.timestamp >= q.timestamp
        span == last.timestamp - first.timestamp
    IN IF total > 1
       THEN total * HourSeconds > threshold * Max(span, HourSeconds)
       ELSE total > threshold

\* lines 370-450.  The error rate of line 399 filters on status_code.
analyze_ip_behavior(log, cfgs, ip, hours, t) ==
    LET logs == WindowRows(log, ip, t - hours * HourSeconds)
        en == {c \in cfgs : c.enabled}
        config == EnabledConfig(cfgs)
        sensitive_paths == IF en = {} THEN << >> ELSE get_sensitive_paths_list(config)
        sensitive_access == Cardinality(SensitiveAccess(logs, sensitive_paths))
    IN IF logs = {} THEN Analysis("No logs found for this IP", 0, {})
       ELSE IF "status_code" \notin RequestLogFields THEN Analysis("FieldError", 0, {})
       ELSE Analysis("", sensitive_access,
               IF en = {} THEN {}
               ELSE (IF requests_per_hour_over(logs, config.threshold)
                     THEN {"High frequency"} ELSE {})
                    \cup (IF sensitive_access > 0 THEN {"sensitive paths"} ELSE {}))

\* analyze_ip handle(): the import of line 2, then the task and its result
AnalyzeIp(o, ip, hours) ==
    IF Importable("ip_tracking.tasks")
    THEN /\ Free(o)
         /\ ops' = [ops EXCEPT ![o] = Finished("analyze", ip, "done")]
         /\ last_res' = <<analyze_ip_behavior(request_log, configs, ip, hours, now)>>
         /\ last_check' = NoCheck
         /\ prev_res' = << >>
         /\ UNCHANGED <<registryVars, suspicious, nextSuspId, alerts, opFrame>>
    ELSE ImportFails(o, "analyze", ip)

AnalyzeCall == \E o \in AllSlots, ip \in IPs : AnalyzeIp(o, ip, 1)

\* enabled configurations whose list is a prefix, an exact path, or empty
AnalyzeConfigs ==
    {{AdminConfig(TRUE, TRUE, FALSE, FALSE, << <<"/", "admin">> >>)},
     {AdminConfig(FALSE, TRUE, FALSE, FALSE, << <<"/", "admin", "/", "users">> >>)},
     {AdminConfig(FALSE, TRUE, FALSE, FALSE, << >>)}}

InitAnalyze ==
    /\ now = RecordsNow
    /\ blocks = {}
    /\ nextBlockId = 1
    /\ last_change = [ip \in IPs |-> 0]
    /\ blocked_ips_cache = NoneCache
    /\ last_cache_update = 0
    /\ last_check = NoCheck
    /\ ops = [o \in AllSlots |-> IdleOp]
    /\ reqs = [s \in ReqSlots |-> IdleReq]
    /\ \/ request_log = {} /\ nextLogId = 1
       \/ request_log = Window(101) /\ nextLogId = 102
       \/ request_log = PathWindow /\ nextLogId = Len(PathInputs) + 1
       \/ request_log = SensitiveWindow /\ nextLogId = 13
    /\ suspicious = {}
    /\ nextSuspId = 1
    /\ configs \in AnalyzeConfigs
    /\ passes = [p \in PassSlots |-> IdlePass]
    /\ alerts = << >>
    /\ mem_cache = {}
    /\ geo_db = {}
    /\ last_res = << >>
    /\ prev_res = << >>

NextAnalyze == AnalyzeCall \/ AnalysisPass \/ Tick

SpecAnalyze == InitAnalyze /\ [][NextAnalyze]_vars

\* the events of ip the sensitive-path rule counts for a window of the given
\* hours that ends at t (tasks.py lines 145-166)
RuleHits(log, config, ip, hours, t) ==
    LET paths == get_sensitive_paths_list(config)
    IN IF paths = << >> THEN {}
       ELSE SensitiveRows(log, ip, t - hours * HourSeconds, sensitive_path_q(paths))

\* C38: an analysis of an address that has ended has returned a verdict whose
\* count of sensitive accesses is the number of events the sensitive-path
\* rule counts for the same address, window, events and enabled
\* configuration; the verdict has the sensitive-path reason exactly when that
\* number is not zero, and has not when the list is empty.
C38_AnalysisAgreesWithRule ==
    [][\A o \in AllSlots :
          (/\ ops'[o] # ops[o]
           /\ ops'[o].kind = "analyze" /\ ops'[o].pc = "done"
           /\ Evaluated # NoConfig)
          => /\ ops'[o].result = "done"
             /\ Len(last_res') = 1
             /\ LET a == last_res'[1]
                    hits == Cardinality(RuleHits(request_log, Evaluated,
                                                 ops'[o].ip, 1, now))
                IN /\ hits > 0 => a.sensitive_access_count = hits
                   /\ ("sensitive paths" \in a.reasons) <=> (hits > 0)
                   /\ get_sensitive_paths_list(Evaluated) = << >>
                         => "sensitive paths" \notin a.reasons]_vars

-----------------------------------------------------------------------------
(* Concurrent is_ip_blocked calls on one middleware instance (middleware.py, *)
(* lines 43-68): the requests of a threaded server share the instance, and  *)
(* get_blocked_ips takes no lock, so the calls interleave between its       *)
(* statements                                                              *)

ThreadSlots == {1, 2}     \* requests inside is_ip_blocked at a time

\* a request inside is_ip_blocked(ip): its position, and the locals
\* current_time (line 47), active_blocks once set(active_blocks) has been
\* built (line 58) and blocked_ips (line 67), each in a 1-tuple once set
Thread(pc, ip, current_time, active_blocks, blocked_ips, result) ==
    [pc |-> pc, ip |-> ip, current_time |-> current_time,
     active_blocks |-> active_blocks, blocked_ips |-> blocked_ips,
     result |-> result]

IdleThread == Thread("idle", << >>, 0, << >>, << >>, FALSE)

threadFrame == <<now, registryVars, ops, request_log, nextLogId, rulesVars,
                 alerts, geoStore, last_res, prev_res>>

\* lines 47-50: the time is read and the snapshot's age is tested
CallStart(s, ip) ==
    /\ reqs[s].pc \in {"idle", "done"}
    /\ reqs' = [reqs EXCEPT ![s] =
          Thread(IF CacheFresh(blocked_ips_cache, last_cache_update, now)
                 THEN "fresh" ELSE "stale",
                 ip, now, << >>, << >>, FALSE)]
    /\ last_check' = NoCheck
    /\ UNCHANGED <<snapshotVars, threadFrame>>

\* lines 54-58, set(active_blocks): the query is run and its rows are
\* collected in a new set
QueryBlocks(s) ==
    /\ reqs[s].pc = "stale"
    /\ reqs' = [reqs EXCEPT ![s].pc = "built",
                            ![s].active_blocks = <<ActiveBlocks(blocks, now)>>]
    /\ last_check' = NoCheck
    /\ UNCHANGED <<snapshotVars, threadFrame>>

\* line 58: the set is stored in self.blocked_ips_cache
AssignCache(s) ==
    /\ reqs[s].pc = "built"
    /\ blocked_ips_cache' = reqs[s].active_blocks
    /\ reqs' = [reqs EXCEPT ![s].pc = "assigned"]
    /\ last_check' = NoCheck
    /\ UNCHANGED <<last_cache_update, threadFrame>>

\* line 59: self.last_cache_update = current_time
AssignUpdate(s) ==
    /\ reqs[s].pc = "assigned"
    /\ last_cache_update' = reqs[s].current_time
    /\ reqs' = [reqs EXCEPT ![s].pc = "timed"]
    /\ last_check' = NoCheck
    /\ UNCHANGED <<blocked_ips_cache, threadFrame>>

\* lines 51 and 61, return self.blocked_ips_cache, and lines 67-68: the
\* attribute is read again and the address is looked up in it
CallReturn(s) ==
    /\ reqs[s].pc \in {"fresh", "timed"}
    /\ reqs' = [reqs EXCEPT ![s].pc = "done",
                            ![s].blocked_ips = blocked_ips_cache,
                            ![s].result = is_ip_blocked(reqs[s].ip,
                                                        blocked_ips_cache[1])]
    /\ last_check' = [ip |-> reqs[s].ip,
                      result |-> is_ip_blocked(reqs[s].ip, blocked_ips_cache[1])]
    /\ UNCHANGED <<snapshotVars, threadFrame>>

\* the next statement of the call in slot s
CallStep(s) ==
    QueryBlocks(s) \/ AssignCache(s) \/ AssignUpdate(s) \/ CallReturn(s)

\* Requests in threads of one process, block_ip commands that add rows
\* without expiry, the clock
NextThreads ==
    \/ \E s \in ThreadSlots : CallStart(s, IPA)
    \/ \E s \in ThreadSlots : QueryBlocks(s)
    \/ \E s \in ThreadSlots : AssignCache(s)
    \/ \E s \in ThreadSlots : AssignUpdate(s)
    \/ \E s \in ThreadSlots : CallReturn(s)
    \/ BlockWith({1}, {IPA}, {<<"spam">>}, {NoExpires})
    \/ Tick

InitThreads ==
    /\ InitCommon
    /\ reqs = [s \in ThreadSlots |-> IdleThread]
    /\ suspicious = {}
    /\ nextSuspId = 1
    /\ configs = {}
    /\ passes = [p \in PassSlots |-> IdlePass]
    /\ mem_cache = {}
    /\ geo_db = {}
    /\ last_res = << >>
    /\ prev_res = << >>

SpecThreads == InitThreads /\ [][NextThreads]_vars

\* the call in slot s is between its first statement and its return
InCall(s) == reqs[s].pc \in {"fresh", "stale", "built", "assigned", "timed"}

\* the call in slot s has stored the set it built in the instance
Installed(s) ==
    reqs[s].pc \in {"assigned", "timed", "done"} /\ reqs[s].active_blocks # << >>

\* the active addresses of the table at some time up to now; rows are only
\* added and do not expire here, so these are the sets closed under "created
\* no later"
CompleteSnapshot(S) ==
    /\ S \subseteq ActiveBlocks(blocks, now)
    /\ \A r \in blocks, q \in blocks :
          (r.ip \in S /\ q.created_at < r.created_at) => q.ip \in S

\* C30: with requests in several threads of one middleware instance, a call
\* of is_ip_blocked that returns has looked its address up in a complete
\* snapshot, the active addresses of the table at some time, and its answer
\* is membership in that set; a call in progress can always take its next
\* step, whatever the other calls are doing; and the set a returning call is
\* answered from holds every snapshot a call has stored in the instance
\* before, the table only growing here, so it is none older than those.
C30_CompleteAndNewest ==
    [][\A s \in ThreadSlots :
          /\ InCall(s) => ENABLED CallStep(s)
          /\ (InCall(s) /\ reqs'[s].pc = "done")
             => /\ reqs'[s].blocked_ips # << >>
                /\ CompleteSnapshot(reqs'[s].blocked_ips[1])
                /\ reqs'[s].result = (reqs'[s].ip \in reqs'[s].blocked_ips[1])
                /\ \A u \in ThreadSlots :
                      Installed(u)
                      => reqs[u].active_blocks[1] \subseteq reqs'[s].blocked_ips[1]]_vars

\* the first two parts of C30 alone: complete snapshots, and no waiting
C30_CompleteNoWait ==
    [][\A s \in ThreadSlots :
          /\ InCall(s) => ENABLED CallStep(s)
          /\ (InCall(s) /\ reqs'[s].pc = "done")
             => /\ reqs'[s].blocked_ips # << >>
                /\ CompleteSnapshot(reqs'[s].blocked_ips[1])
                /\ reqs'[s].result = (reqs'[s].ip \in reqs'[s].blocked_ips[1])]_vars

-----------------------------------------------------------------------------
(* Concurrent get_geolocation_data calls in one process (middleware.py,     *)
(* lines 70-185): the calls share the in-process cache and the table, take  *)
(* no lock, and interleave between their cache and database operations     *)

\* a request inside get_geolocation_data(ip): its position, the local
\* geolocation_data, the provider calls it has made, whether one of them
\* answered, and whether update_or_create's lookup found a row
GeoThread(pc, ip, data, calls, answered, found) ==
    [pc |-> pc, ip |-> ip, data |-> data, calls |-> calls,
     answered |-> answered, found |-> found]

IdleGeoThread == GeoThread("idle", << >>, FailedData, 0, FALSE, FALSE)

geoThreadFrame == <<now, registryVars, snapshotVars, ops, request_log,
                    nextLogId, rulesVars, alerts, last_res, prev_res>>

GeoUniqueViolationOff(db, ip) == FALSE

\* GeolocationCache.ip_address is unique (models.py line 111): an INSERT for
\* an address that has a row raises IntegrityError
GeoUniqueViolation(db, ip) == \E r \in db : r.ip = ip

\* lines 84-90: cache.get; a hit is returned at once
GeoStart(s, ip) ==
    LET hit == MemGet(mem_cache, ip, now)
    IN /\ reqs[s].pc \in {"idle", "done"}
       /\ reqs' = [reqs EXCEPT ![s] =
             IF hit # {}
             THEN GeoThread("done", ip,
                            [(CHOOSE e \in hit : TRUE).data
                                EXCEPT !.source = "memory_cache"],
                            0, FALSE, FALSE)
             ELSE GeoThread("db", ip, FailedData, 0, FALSE, FALSE)]
       /\ last_check' = NoCheck
       /\ UNCHANGED <<geoStore, geoThreadFrame>>

\* lines 93-104: the table is read; a row that has not expired is copied to
\* the in-process cache and returned
GeoDbRead(s) ==
    LET ip  == reqs[s].ip
        dbc == _get_db_cached_location(geo_db, ip, now)
    IN /\ reqs[s].pc = "db"
       /\ geo_db' = dbc.db
       /\ IF dbc.data # << >>
          THEN /\ mem_cache' = MemSet(mem_cache, ip, dbc.data[1], now,
                                      geolocation_cache_ttl, dbc.origin)
               /\ reqs' = [reqs EXCEPT ![s].pc = "done", ![s].data = dbc.data[1]]
          ELSE /\ mem_cache' = mem_cache
               /\ reqs' = [reqs EXCEPT ![s].pc = "providers"]
       /\ last_check' = NoCheck
       /\ UNCHANGED geoThreadFrame

\* lines 106-124 and the test of line 127: the providers are called; a
\* result that is not to be cached is returned
GeoProviders(s) ==
    \E a1 \in Answers, a2 \in Answers :
        LET ext == CallProviders(a1, a2)
        IN /\ reqs[s].pc = "providers"
           /\ reqs' = [reqs EXCEPT
                 ![s].pc = IF ShouldCache(ext.data.source) THEN "lookup" ELSE "done",
                 ![s].data = ext.data,
                 ![s].calls = ext.calls,
                 ![s].answered = a1.ok \/ (ext.calls = 2 /\ a2.ok)]
           /\ last_check' = NoCheck
           /\ UNCHANGED <<geoStore, geoThreadFrame>>

\* lines 129-131, update_or_create: its SELECT; an exception (the database
\* is not reachable) is swallowed by line 132
GeoDbLookup(s) ==
    /\ reqs[s].pc = "lookup"
    /\ \E dbw \in BOOLEAN :
          reqs' = [reqs EXCEPT
             ![s].pc = IF dbw THEN "save" ELSE "memset",
             ![s].found = GeoUniqueViolation(geo_db, reqs[s].ip)]
    /\ last_check' = NoCheck
    /\ UNCHANGED <<geoStore, geoThreadFrame>>

\* update_or_create's write: the row found is updated; when none was found a
\* row is inserted, and if the address has got a row meanwhile the
\* IntegrityError makes update_or_create read that row and update it
GeoDbSave(s) ==
    LET ip  == reqs[s].ip
        row == GeoRow(ip, reqs[s].data.country, reqs[s].data.lat,
                      now + 24 * HourSeconds)
    IN /\ reqs[s].pc = "save"
       /\ geo_db' = IF reqs[s].found \/ GeoUniqueViolation(geo_db, ip)
                    THEN _set_db_cached_location(geo_db, ip, reqs[s].data, now)
                    ELSE geo_db \cup {row}
       /\ mem_cache' = mem_cache
       /\ reqs' = [reqs EXCEPT ![s].pc = "memset"]
       /\ last_check' = NoCheck
       /\ UNCHANGED geoThreadFrame

\* lines 136-138: cache.set, and the return
GeoMemSet(s) ==
    /\ reqs[s].pc = "memset"
    /\ mem_cache' = MemSet(mem_cache, reqs[s].ip, reqs[s].data, now,
                           geolocation_cache_ttl, NULL)
    /\ geo_db' = geo_db
    /\ reqs' = [reqs EXCEPT ![s].pc = "done"]
    /\ last_check' = NoCheck
    /\ UNCHANGED geoThreadFrame

\* Requests of one process that resolve the same public address
NextGeoThreads ==
    \/ \E s \in ThreadSlots : GeoStart(s, IPA)
    \/ \E s \in ThreadSlots : GeoDbRead(s)
    \/ \E s \in ThreadSlots : GeoProviders(s)
    \/ \E s \in ThreadSlots : GeoDbLookup(s)
    \/ \E s \in ThreadSlots : GeoDbSave(s)
    \/ \E s \in ThreadSlots : GeoMemSet(s)

InitGeoThreads ==
    /\ InitCommon
    /\ reqs = [s \in ThreadSlots |-> IdleGeoThread]
    /\ suspicious = {}
    /\ nextSuspId = 1
    /\ configs = {}
    /\ passes = [p \in PassSlots |-> IdlePass]
    /\ mem_cache = {}
    /\ geo_db = {}
    /\ last_res = << >>
    /\ prev_res = << >>

SpecGeoThreads == InitGeoThreads /\ [][NextGeoThreads]_vars

\* no call is in progress
GeoQuiescent == \A u \in ThreadSlots : reqs[u].pc \in {"idle", "done"}

-----------------------------------------------------------------------------
(* The sweep of old SuspiciousIP rows (tasks.py): clear_old_suspicious_ips  *)

\* lines 348-360: the two statements on the table
clear_old_suspicious_ips(tbl, t) ==
    LET kept == {r \in tbl :
                    ~(r.last_detected < t - 7 * DaySeconds /\ ~r.is_active)}
    IN {IF r.last_detected < t - 30 * DaySeconds /\ r.is_active
        THEN [r EXCEPT !.is_active = FALSE] ELSE r : r \in kept}

\* the body of the task: both statements, then return True
SweepBody(o) ==
    /\ Free(o)
    /\ suspicious' = clear_old_suspicious_ips(suspicious, now)
    /\ ops' = [ops EXCEPT ![o] = Finished("sweep", << >>, "True")]
    /\ UNCHANGED <<registryVars, nextSuspId, alerts, opFrame>>
    /\ Quiet

\* A call of clear_old_suspicious_ips: the module is imported, then the body runs
Sweep(slots) ==
    IF Importable("ip_tracking.tasks")
    THEN \E o \in slots : SweepBody(o)
    ELSE \E o \in slots : ImportFails(o, "sweep", << >>)

\* how long before the sweeps the rows were last saved: around 7 and 30 days
Ages == {6 * DaySeconds, 7 * DaySeconds, 7 * DaySeconds + 1, 30 * DaySeconds,
         30 * DaySeconds + 1}

SweepKeys == <<[ip |-> IPA, reason |-> "high_frequency"],
               [ip |-> IPA, reason |-> "sensitive_paths"],
               [ip |-> IPB, reason |-> "high_frequency"]>>

\* rows saved once, at SweepNow - age, active or resolved
OldRows(k) ==
    {SuspRow(k, SweepKeys[k].ip, SweepKeys[k].reason, "medium", 0,
             SweepNow - age, SweepNow - age, active, FALSE) :
        age \in Ages, active \in BOOLEAN}

\* no row, or one row, of key k
OptionalRow(k) == {{}} \cup {{r} : r \in OldRows(k)}

\* the tables the sweeps are run on: at most one row per (ip, reason)
SweepTables ==
    {a \cup b \cup c : a \in OptionalRow(1), b \in OptionalRow(2), c \in OptionalRow(3)}

InitSweep ==
    /\ now = SweepNow
    /\ blocks = {}
    /\ nextBlockId = 1
    /\ last_change = [ip \in IPs |-> 0]
    /\ blocked_ips_cache = NoneCache
    /\ last_cache_update = 0
    /\ last_check = NoCheck
    /\ ops = [o \in AllSlots |-> IdleOp]
    /\ reqs = [s \in ReqSlots |-> IdleReq]
    /\ request_log = {}
    /\ nextLogId = 1
    /\ suspicious \in SweepTables
    /\ nextSuspId = Len(SweepKeys) + 1
    /\ configs = {}
    /\ passes = [p \in PassSlots |-> IdlePass]
    /\ alerts = << >>
    /\ mem_cache = {}
    /\ geo_db = {}
    /\ last_res = << >>
    /\ prev_res = << >>

SweepTick ==
    /\ now < SweepNow + MaxSweepTicks
    /\ now' = now + 1
    /\ Quiet
    /\ UNCHANGED <<registryVars, snapshotVars, ops, reqs, request_log,
                   nextLogId, rulesVars, alerts, geoStore>>

NextSweep == Sweep({1}) \/ SweepTick

SpecSweep == InitSweep /\ [][NextSweep]_vars

\* the call of clear_old_suspicious_ips in slot o ends in this step
SweepEnds(o) ==
    ops'[o] # ops[o] /\ ops'[o].kind = "sweep" /\ ops'[o].pc = "done"

\* what a sweep at time t is to make of a table: the resolved rows
\* last detected more than 7 days before are gone, the active rows last
\* detected more than 30 days before are resolved, the rest is as it was
Swept(tbl, t) ==
    LET gone == {r \in tbl : ~r.is_active /\ r.last_detected < t - 7 * 86400}
        aged == {r \in tbl : r.is_active /\ r.last_detected < t - 30 * 86400}
    IN (tbl \ (gone \cup aged)) \cup {[r EXCEPT !.is_active = FALSE] : r \in aged}

\* C14: a sweep at time now deletes exactly the rows that are resolved and
\* were last detected before now - 7 days, resolves (without deleting them)
\* exactly the active rows last detected before now - 30 days, and leaves
\* every other row as it was.
C14_SweepEffect ==
    [][\A o \in AllSlots : SweepEnds(o) => suspicious' = Swept(suspicious, now)]_vars

\* C15: a sweep that has run leaves a table that a second sweep at the same
\* time leaves as it is.
C15_SweepIdempotent ==
    [][\A o \in AllSlots :
          SweepEnds(o) => /\ ops'[o].result = "True"
                          /\ Swept(suspicious', now) = suspicious']_vars

-----------------------------------------------------------------------------
(* A sweep racing an analysis pass (tasks.py).  The sweep's two statements  *)
(* are two transactions, and the pass's rules run between them              *)

\* lines 348-353: the DELETE of the resolved rows
SweepDelete(o) ==
    /\ Free(o)
    /\ suspicious' = {r \in suspicious :
                         ~(r.last_detected < now - 7 * DaySeconds /\ ~r.is_active)}
    /\ ops' = [ops EXCEPT ![o] = Op("sweep", "deactivate", << >>, NoRow, 0, "none")]
    /\ UNCHANGED <<registryVars, nextSuspId, alerts, opFrame>>
    /\ Quiet

\* lines 356-363: the UPDATE of the old active rows, and return True
SweepDeactivate(o) ==
    /\ ops[o].kind = "sweep" /\ ops[o].pc = "deactivate"
    /\ suspicious' = {IF r.last_detected < now - 30 * DaySeconds /\ r.is_active
                      THEN [r EXCEPT !.is_active = FALSE] ELSE r : r \in suspicious}
    /\ ops' = [ops EXCEPT ![o] = Finished("sweep", << >>, "True")]
    /\ UNCHANGED <<registryVars, nextSuspId, alerts, opFrame>>
    /\ Quiet

\* A call of clear_old_suspicious_ips, statement by statement
SweepInSteps(slots) ==
    IF Importable("ip_tracking.tasks")
    THEN \E o \in slots : SweepDelete(o) \/ SweepDeactivate(o)
    ELSE \E o \in slots : ImportFails(o, "sweep", << >>)

\* n requests of one address made at the time the sweeps start
RecentWindow(n) == {LogRow(i, IPA, SweepNow, <<"/">>, "", NULL, "", NULL) : i \in 1..n}

InitSweepRace ==
    /\ now = SweepNow
    /\ blocks = {}
    /\ nextBlockId = 1
    /\ last_change = [ip \in IPs |-> 0]
    /\ blocked_ips_cache = NoneCache
    /\ last_cache_update = 0
    /\ last_check = NoCheck
    /\ ops = [o \in AllSlots |-> IdleOp]
    /\ reqs = [s \in ReqSlots |-> IdleReq]
    /\ \E n \in {101, 150} : request_log = RecentWindow(n) /\ nextLogId = n + 1
    /\ suspicious \in OptionalRow(1)
    /\ nextSuspId = Len(SweepKeys) + 1
    /\ configs = {AdminConfig(TRUE, FALSE, FALSE, FALSE, << >>)}
    /\ passes = [p \in PassSlots |-> IdlePass]
    /\ alerts = << >>
    /\ mem_cache = {}
    /\ geo_db = {}
    /\ last_res = << >>
    /\ prev_res = << >>

NextSweepRace == SweepInSteps({1}) \/ AnalysisPass \/ SweepTick

SpecSweepRace == InitSweepRace /\ [][NextSweepRace]_vars

-----------------------------------------------------------------------------
(* The events under every operation.  update_geolocation (management        *)
(* command) is the one operation that rewrites RequestLog rows.             *)

TouchedLog(log, data, t) ==
    [log EXCEPT !.country = data.country, !.lat = data.lat,
                !.geolocation_source = data.source, !.geolocation_updated = t,
                !.timestamp = t]

\* update_logs_geolocation, lines 102-114: the fields set before log.save()
UpdatedLog(log, data, t) ==
    [log EXCEPT !.country = data.country, !.lat = data.lat,
                !.geolocation_source = data.source, !.geolocation_updated = t]

\* update_geolocation --all --limit 1, lines 46-60 and 95-115: the latest row
\* without a country is resolved and rewritten.  The command is a process of
\* its own, whose in-process cache starts empty and ends with it.
UpdateGeolocation ==
    \E log \in request_log, a1 \in PipelineAnswers, a2 \in PipelineAnswers,
       dbw \in BOOLEAN :
        /\ log.country = ""
        /\ \A other \in request_log :
              other.country = "" => other.timestamp <= log.timestamp
        /\ LET r == get_geolocation_data(log.ip, {}, geo_db, now, a1, a2, dbw)
           IN /\ geo_db' = r.db
              /\ request_log' =
                    IF ~r.raised /\ r.data.source \notin {"private_ip", "failed"}
                    THEN (request_log \ {log}) \cup {UpdatedLog(log, r.data, now)}
                    ELSE request_log
        /\ Quiet
        /\ UNCHANGED <<now, registryVars, snapshotVars, ops, reqs, nextLogId,
                       rulesVars, alerts, mem_cache>>

\* rows the pipeline has written: one enriched, two by the fallback write
EventsLog ==
    {LogRow(1, IPB, 0, <<"/", "admin">>, "Kenya", 5, "_get_ipapi_location", 0),
     LogRow(2, IPA, 0, <<"/", "admin">>, "", NULL, "", NULL),
     LogRow(3, IPA, 0, <<"/">>, "", NULL, "", NULL)}

InitEvents ==
    /\ now = TickStep
    /\ blocks = {}
    /\ nextBlockId = 1
    /\ last_change = [ip \in IPs |-> 0]
    /\ blocked_ips_cache = NoneCache
    /\ last_cache_update = 0
    /\ last_check = NoCheck
    /\ ops = [o \in AllSlots |-> IdleOp]
    /\ reqs = [s \in ReqSlots |-> IdleReq]
    /\ request_log = EventsLog
    /\ nextLogId = Cardinality(EventsLog) + 1
    /\ suspicious = {}
    /\ nextSuspId = 1
    /\ configs = {}
    /\ passes = [p \in PassSlots |-> IdlePass]
    /\ alerts = << >>
    /\ mem_cache = {}
    /\ geo_db = {}
    /\ last_res = << >>
    /\ prev_res = << >>

NextEvents ==
    \/ UpdateGeolocation
    \/ AnalysisPass
    \/ Sweep({1})
    \/ Escalate({1}, {IPA})
    \/ BlockWith({1}, {IPA}, {<< >>}, {NoExpires})
    \/ Unblock({1}, {IPA})

SpecEvents == InitEvents /\ [][NextEvents]_vars

\* C16: no step deletes a RequestLog row or changes its ip_address, path or
\* timestamp, and a step of an analysis pass changes no field of a row other
\* than is_suspicious and anomaly_reason.
C16_EventsImmutable ==
    [][\A r \in request_log :
          \E r2 \in request_log' :
              /\ r2.id = r.id /\ r2.ip = r.ip /\ r2.path = r.path
              /\ r2.timestamp = r.timestamp
              /\ passes' # passes
                 => [r2 EXCEPT !.is_suspicious = r.is_suspicious,
                               !.anomaly_reason = r.anomaly_reason] = r]_vars

\* update_geolocation has rewritten the latest row after time had passed, an
\* analysis pass and a sweep have been called, and the IP is blocked.
C16_Witness ==
    /\ \E r \in request_log :
          r.ip = IPA /\ r.country = "Kenya" /\ r.geolocation_updated > r.timestamp
    /\ \E p \in PassSlots : passes[p].pc = "done"
    /\ ops[1].kind = "sweep" /\ ops[1].pc = "done"
    /\ BlockExists(blocks, IPA)
    /\ geo_db # {}

====
